---- MODULE Spec2Model ----
(***************************************************************************)
(* Model of the AL reviewer: the rule engine (lintFile, lintRepo), the     *)
(* fix proposer (proposeFixes), the edit applier (applyEdits) and the      *)
(* three entry points that apply edits (MCP tool, CLI command, editor      *)
(* command).  Text is a sequence of one-character strings; every regular   *)
(* expression of the source is translated into an operator that scans the  *)
(* characters the way the expression does.                                 *)
(***************************************************************************)
EXTENDS Naturals, Integers, Sequences, FiniteSets, TLC

VARIABLES
  disk,      \* the text of each file of the repository
  access,    \* what the file system allows on each file: "ok", "unreadable", "readonly"
  doc,       \* the text of the document open in the editor
  proposal,  \* the proposal the caller holds: the files of the last proposal it was given
  applies,   \* the number of confirmed apply requests so far
  tasks,     \* the applyEdits calls in flight: where each stands and what it has read
  inp,       \* the inputs fixed at the start: the rule configuration, the initial file
  out        \* the outcome of the last operation

vars == <<disk, access, doc, proposal, applies, tasks, inp, out>>

(***************************************************************************)
(* Characters and character classes of JavaScript regular expressions.     *)
(***************************************************************************)
LF == "\n"
CR == "\r"
Lowers == <<"a","b","c","d","e","f","g","h","i","j","k","l","m","n","o","p","q","r","s","t","u","v","w","x","y","z">>
Uppers == <<"A","B","C","D","E","F","G","H","I","J","K","L","M","N","O","P","Q","R","S","T","U","V","W","X","Y","Z">>
LowerSet == {Lowers[i] : i \in 1..26}
UpperSet == {Uppers[i] : i \in 1..26}
DigitSeq == <<"0","1","2","3","4","5","6","7","8","9">>
DigitSet == {DigitSeq[i] : i \in 1..10}
WordSet == LowerSet \cup UpperSet \cup DigitSet \cup {"_"}
SpaceSet == {" ", "\t", LF, CR}

\* \d
IsDigit(c) == c \in DigitSet
\* \w, also [A-Za-z0-9_]
IsWordChar(c) == c \in WordSet
\* \s
IsSpace(c) == c \in SpaceSet
\* [A-Za-z_]
IsIdentStart(c) == c \in LowerSet \cup UpperSet \cup {"_"}
\* the case folding of the i flag
ToLower(c) == IF c \in UpperSet THEN Lowers[CHOOSE k \in 1..26 : Uppers[k] = c] ELSE c

Min(S) == CHOOSE i \in S : \A j \in S : i <= j
Max(S) == CHOOSE i \in S : \A j \in S : i >= j

\* the character at 1-based position i, "" outside the text
At(s, i) == IF i >= 1 /\ i <= Len(s) THEN s[i] ELSE ""

\* a literal at position i
HasLitAt(s, i, lit) ==
  /\ i >= 1
  /\ i + Len(lit) - 1 <= Len(s)
  /\ \A k \in 1..Len(lit) : s[i + k - 1] = lit[k]

\* a lower-case literal at position i under the i flag
HasLitAtI(s, i, lit) ==
  /\ i >= 1
  /\ i + Len(lit) - 1 <= Len(s)
  /\ \A k \in 1..Len(lit) : ToLower(s[i + k - 1]) = lit[k]

\* greedy \s*, \w*, \d*, [^"]*: the first position at or after i not in the class
SkipIn(s, i, class) ==
  IF i > Len(s) THEN i
  ELSE CHOOSE j \in i..(Len(s) + 1) :
         /\ \A k \in i..(j - 1) : s[k] \in class
         /\ (j > Len(s) \/ s[j] \notin class)

SkipSpaces(s, i) == SkipIn(s, i, SpaceSet)

SkipWordChars(s, i) == SkipIn(s, i, WordSet)

SkipDigits(s, i) == SkipIn(s, i, DigitSet)

SkipNot(s, i, c) ==
  IF i > Len(s) THEN i
  ELSE CHOOSE j \in i..(Len(s) + 1) :
         /\ \A k \in i..(j - 1) : s[k] # c
         /\ (j > Len(s) \/ s[j] = c)

\* String.prototype.slice(a, b) and slice(a) on 0-based offsets, clamped as JS clamps
Slice(s, a, b) ==
  LET lo == IF a > Len(s) THEN Len(s) ELSE a
      hi == IF b > Len(s) THEN Len(s) ELSE b
  IN IF hi <= lo THEN <<>> ELSE SubSeq(s, lo + 1, hi)

SliceFrom(s, a) == Slice(s, a, Len(s))

\* String.prototype.startsWith
StartsWith(s, p) == HasLitAt(s, 1, p)

\* String.prototype.includes
StrIncludes(s, p) == \E i \in 1..(Len(s) + 1) : HasLitAt(s, i, p)

RECURSIVE Concat(_)
Concat(ss) == IF ss = <<>> THEN <<>> ELSE Head(ss) \o Concat(Tail(ss))

\* Array.prototype.join
RECURSIVE Join(_, _)
Join(ss, sep) ==
  IF ss = <<>> THEN <<>>
  ELSE IF Len(ss) = 1 THEN ss[1]
  ELSE ss[1] \o sep \o Join(Tail(ss), sep)

\* text.split(/\r?\n/)
RECURSIVE SplitLines(_)
SplitLines(s) ==
  LET k == SkipNot(s, 1, LF)
  IN IF k > Len(s) THEN <<s>>
     ELSE LET e == IF k >= 2 /\ s[k - 1] = CR THEN k - 2 ELSE k - 1
          IN <<SubSeq(s, 1, e)>> \o SplitLines(SubSeq(s, k + 1, Len(s)))

(***************************************************************************)
(* JavaScript values of the rule configuration (standards.json).           *)
(***************************************************************************)
Undefined == [t |-> "undefined"]
StrV(s) == [t |-> "string", str |-> s]
NumV(n) == [t |-> "number", num |-> n]
BoolV(b) == [t |-> "boolean", bool |-> b]
ArrV(a) == [t |-> "array", arr |-> a]

\* the truthiness that &&, || and if test
Truthy(v) ==
  CASE v.t = "undefined" -> FALSE
    [] v.t = "string" -> v.str # <<>>
    [] v.t = "number" -> v.num # 0
    [] v.t = "boolean" -> v.bool
    [] OTHER -> TRUE

RECURSIVE NatToStr(_)
NatToStr(n) == IF n < 10 THEN <<DigitSeq[n + 1]>> ELSE NatToStr(n \div 10) \o <<DigitSeq[(n % 10) + 1]>>

\* the string conversion of template literals and of startsWith's argument
ToStr(v) ==
  CASE v.t = "undefined" -> <<"u","n","d","e","f","i","n","e","d">>
    [] v.t = "string" -> v.str
    [] v.t = "number" -> NatToStr(v.num)
    [] v.t = "boolean" -> IF v.bool THEN <<"t","r","u","e">> ELSE <<"f","a","l","s","e">>
    [] OTHER -> Join(v.arr, <<",">>)

\* a || b
OrElse(a, b) == IF Truthy(a) THEN a ELSE b

\* parseALHeader: first match of
\* /(tableextension|table|pageextension|page|codeunit|report|query|
\*   xmlport|enum)\s+(\d+)\s+"([^"]+)"(?:\s+extends\s+"([^"]+)")?/i
HeaderKinds == <<<<"t","a","b","l","e","e","x","t","e","n","s","i","o","n">>, <<"t","a","b","l","e">>, <<"p","a","g","e","e","x","t","e","n","s","i","o","n">>, <<"p","a","g","e">>, <<"c","o","d","e","u","n","i","t">>,
                 <<"r","e","p","o","r","t">>, <<"q","u","e","r","y">>, <<"x","m","l","p","o","r","t">>, <<"e","n","u","m">>>>

\* the position of the closing quote of "([^"]+)" opening at q, 0 when it does not match
QuotedEnd(s, q) ==
  LET Closing(e) == IF e > q + 1 /\ At(s, e) = "\"" THEN e ELSE 0
  IN IF At(s, q) # "\"" THEN 0 ELSE Closing(SkipNot(s, q + 1, "\""))

\* \s+(\d+)\s+"([^"]+)" after the keyword ending before position a:
\* <<first digit, position after the digits, opening quote, closing quote>>, <<>> on no match
HeaderTail(s, a) ==
  LET Match(b, c, d, e) == IF b > a /\ c > b /\ d > c /\ e > 0 THEN <<b, c, d, e>> ELSE <<>>
      Name(b, c, d) == Match(b, c, d, QuotedEnd(s, d))
      Gap(b, c) == Name(b, c, SkipSpaces(s, c))
      Id(b) == Gap(b, SkipDigits(s, b))
  IN Id(SkipSpaces(s, a))

HeaderMatchesAt(s, i, k) ==
  HasLitAtI(s, i, HeaderKinds[k]) /\ HeaderTail(s, i + Len(HeaderKinds[k])) # <<>>

\* (?:\s+extends\s+"([^"]+)")? after the closing quote at e: the base name, <<>> when absent
HeaderExtends(s, e) ==
  LET Base(a, b, f) ==
        IF a > e + 1 /\ HasLitAtI(s, a, <<"e","x","t","e","n","d","s">>) /\ b > a + 7 /\ f > 0
        THEN SubSeq(s, b + 1, f - 1) ELSE <<>>
      Quote(a, b) == Base(a, b, QuotedEnd(s, b))
      Word(a) == Quote(a, SkipSpaces(s, a + 7))
  IN Word(SkipSpaces(s, e + 1))

RECURSIVE DigitsToNat(_)
DigitsToNat(ds) ==
  IF ds = <<>> THEN 0
  ELSE 10 * DigitsToNat(SubSeq(ds, 1, Len(ds) - 1))
       + (CHOOSE n \in 0..9 : DigitSeq[n + 1] = ds[Len(ds)])

NoHeader == [found |-> FALSE, type |-> <<>>, id |-> 0, name |-> <<>>, extends |-> <<>>]

\* parseALHeader taking the last header of the file instead of the first
parseALHeaderLast(content) ==
  LET Header(k, m) ==
        [found |-> TRUE,
         type |-> HeaderKinds[k],
         id |-> DigitsToNat(SubSeq(content, m[1], m[2] - 1)),
         name |-> SubSeq(content, m[3] + 1, m[4] - 1),
         extends |-> HeaderExtends(content, m[4])]
      OfKind(i, k) == Header(k, HeaderTail(content, i + Len(HeaderKinds[k])))
      MatchAt(i) == OfKind(i, Min({j \in 1..Len(HeaderKinds) : HeaderMatchesAt(content, i, j)}))
      Match(starts) == IF starts = {} THEN NoHeader ELSE MatchAt(Max(starts))
  IN Match({i \in 1..Len(content) : \E k \in 1..Len(HeaderKinds) : HeaderMatchesAt(content, i, k)})

parseALHeader(content) ==
  LET Header(k, m) ==
        [found |-> TRUE,
         type |-> HeaderKinds[k],
         id |-> DigitsToNat(SubSeq(content, m[1], m[2] - 1)),
         name |-> SubSeq(content, m[3] + 1, m[4] - 1),
         extends |-> HeaderExtends(content, m[4])]
      OfKind(i, k) == Header(k, HeaderTail(content, i + Len(HeaderKinds[k])))
      MatchAt(i) == OfKind(i, Min({j \in 1..Len(HeaderKinds) : HeaderMatchesAt(content, i, j)}))
      Match(starts) == IF starts = {} THEN NoHeader ELSE MatchAt(Min(starts))
  IN Match({i \in 1..Len(content) : \E k \in 1..Len(HeaderKinds) : HeaderMatchesAt(content, i, k)})

\* extractTriggers: every match of /trigger\s+(On[A-Za-z0-9_]+)/g, and
\* extractProcedures: every match of
\* /(?:procedure|local\s+procedure)\s+([A-Za-z_][A-Za-z0-9_]*)/g.
\* A match is <<position of the name, position after the name>>.
TriggerMatchAt(s, i) ==
  LET Name(b, e) ==
        IF HasLitAt(s, i, <<"t","r","i","g","g","e","r">>) /\ b > i + 7 /\ HasLitAt(s, b, <<"O","n">>) /\ e > b + 2
        THEN <<b, e>> ELSE <<>>
      On(b) == Name(b, SkipWordChars(s, b + 2))
  IN On(SkipSpaces(s, i + 7))

\* the position after (?:procedure|local\s+procedure) at i, 0 on no match
ProcKeywordEnd(s, i) ==
  LET Local(b) ==
        IF HasLitAt(s, i, <<"l","o","c","a","l">>) /\ b > i + 5 /\ HasLitAt(s, b, <<"p","r","o","c","e","d","u","r","e">>)
        THEN b + 9 ELSE 0
  IN IF HasLitAt(s, i, <<"p","r","o","c","e","d","u","r","e">>) THEN i + 9 ELSE Local(SkipSpaces(s, i + 5))

ProcedureMatchAt(s, i) ==
  LET Name(a, c) ==
        IF a > 0 /\ c > a /\ IsIdentStart(At(s, c))
        THEN <<c, SkipWordChars(s, c + 1)>> ELSE <<>>
      Keyword(a) == Name(a, SkipSpaces(s, a))
  IN Keyword(ProcKeywordEnd(s, i))

\* matchAll: the matches from position i on, left to right, each search resuming
\* where the previous match ended
RECURSIVE TriggerMatches(_, _)
TriggerMatches(s, i) ==
  LET Rest(m) == <<m>> \o TriggerMatches(s, m[2])
      From(starts) == IF starts = {} THEN <<>> ELSE Rest(TriggerMatchAt(s, Min(starts)))
  IN From({j \in i..Len(s) : TriggerMatchAt(s, j) # <<>>})

RECURSIVE ProcedureMatches(_, _)
ProcedureMatches(s, i) ==
  LET Rest(m) == <<m>> \o ProcedureMatches(s, m[2])
      From(starts) == IF starts = {} THEN <<>> ELSE Rest(ProcedureMatchAt(s, Min(starts)))
  IN From({j \in i..Len(s) : ProcedureMatchAt(s, j) # <<>>})

Captures(s, ms) == [k \in 1..Len(ms) |-> SubSeq(s, ms[k][1], ms[k][2] - 1)]

extractTriggers(content) == Captures(content, TriggerMatches(content, 1))

extractProcedures(content) == Captures(content, ProcedureMatches(content, 1))

\* hasXmlDocAbove: test of
\* ///[\s\S]*?\n\s*(?:procedure|local\s+procedure|trigger)\s+NAME\b
\* the position after (?:procedure|local\s+procedure|trigger) at i, 0 on no match
MemberKeywordEnd(s, i) ==
  LET Or(a) == IF a > 0 THEN a ELSE IF HasLitAt(s, i, <<"t","r","i","g","g","e","r">>) THEN i + 7 ELSE 0
  IN Or(ProcKeywordEnd(s, i))

\* \n\s*(?:...)\s+NAME\b with the \n at position q: the position of NAME, 0 on no match
DocTargetAt(s, q, name) ==
  LET Name(a, c) ==
        IF At(s, q) = LF /\ a > 0 /\ c > a /\ HasLitAt(s, c, name)
           /\ ~IsWordChar(At(s, c + Len(name)))
        THEN c ELSE 0
      Keyword(a) == Name(a, SkipSpaces(s, a))
  IN Keyword(MemberKeywordEnd(s, SkipSpaces(s, q + 1)))

\* the positions where the first /// of the text starts, {} when there is none
FirstDocMarker(s) ==
  LET First(ps) == IF ps = {} THEN {} ELSE {Min(ps)}
  IN First({p \in 1..Len(s) : HasLitAt(s, p, <<"/","/","/">>)})

hasXmlDocAbove(content, name) ==
  \E p \in FirstDocMarker(content) :
    \E q \in (p + 3)..Len(content) : DocTargetAt(content, q, name) > 0

\* ---------------------------------------------------------------------------
\* lintFile.  rules is the record of the three configurable sections; a section
\* that standards.json lacks has present = FALSE and reads as undefined.
\* ---------------------------------------------------------------------------
Finding(sev, rule, file, msg) == [severity |-> sev, rule |-> rule, file |-> file, message |-> msg]

\* rules.objectPrefix?.requiredPrefix and the like
Opt(section, key) == IF section.present THEN section[key] ELSE Undefined

\* rules.objectPrefix.applyTo?.includes(header.type): Array.prototype.includes on a
\* list, String.prototype.includes on a string, undefined on undefined, and a
\* TypeError on a value that has no includes method
IncludesType(applyTo, type) ==
  CASE applyTo.t = "undefined" -> "false"
    [] applyTo.t = "array" ->
         IF \E k \in 1..Len(applyTo.arr) : applyTo.arr[k] = type THEN "true" ELSE "false"
    [] applyTo.t = "string" -> IF StrIncludes(applyTo.str, type) THEN "true" ELSE "false"
    [] OTHER -> "throw"

ObjectPrefixMessage(name, prefix) ==
  <<"O","b","j","e","c","t"," ","n","a","m","e"," ","'">> \o name \o <<"'"," ","s","h","o","u","l","d"," ","s","t","a","r","t"," ","w","i","t","h"," ","'">> \o ToStr(prefix) \o <<"'",".">>

\* the object prefix rule: "throw", or the findings it pushes
ObjectPrefixRule(filePath, content, rules) ==
  LET None == [raised |-> FALSE, findings |-> <<>>]
      Check(header, prefix, inc) ==
        IF inc = "throw" THEN [raised |-> TRUE, findings |-> <<>>]
        ELSE IF inc = "true" /\ ~StartsWith(header.name, ToStr(prefix))
        THEN [raised |-> FALSE,
              findings |-> <<Finding(OrElse(rules.objectPrefix.severity, StrV(<<"m","a","j","o","r">>)),
                                     "objectPrefix", filePath,
                                     ObjectPrefixMessage(header.name, prefix))>>]
        ELSE None
      Rule(header, prefix) ==
        IF ~(header.found /\ header.name # <<>> /\ Truthy(prefix)) THEN None
        ELSE Check(header, prefix, IncludesType(rules.objectPrefix.applyTo, header.type))
  IN Rule(parseALHeader(content), Opt(rules.objectPrefix, "requiredPrefix"))

XmlDocMessage(kind, name) == <<"M","i","s","s","i","n","g"," ","X","M","L"," ","d","o","c"," ","f","o","r"," ">> \o kind \o <<" ">> \o name \o <<".">>

XmlDocFindingsOf(filePath, content, rules, kind, names) ==
  LET Findings(missing) ==
        [k \in 1..Len(missing) |->
           Finding(OrElse(rules.documentation.severity, StrV(<<"m","a","j","o","r">>)), "xmlDoc", filePath,
                   XmlDocMessage(kind, missing[k]))]
  IN Findings(SelectSeq(names, LAMBDA n : ~hasXmlDocAbove(content, n)))

\* the documentation rule with the two loops exchanged: procedures before triggers
XmlDocRuleProceduresFirst(filePath, content, rules) ==
  IF Truthy(Opt(rules.documentation, "requireXmlDoc"))
  THEN XmlDocFindingsOf(filePath, content, rules, <<"p","r","o","c","e","d","u","r","e">>, extractProcedures(content))
       \o XmlDocFindingsOf(filePath, content, rules, <<"t","r","i","g","g","e","r">>, extractTriggers(content))
  ELSE <<>>

\* documentation on triggers/procedures
XmlDocRule(filePath, content, rules) ==
  IF Truthy(Opt(rules.documentation, "requireXmlDoc"))
  THEN XmlDocFindingsOf(filePath, content, rules, <<"t","r","i","g","g","e","r">>, extractTriggers(content))
       \o XmlDocFindingsOf(filePath, content, rules, <<"p","r","o","c","e","d","u","r","e">>, extractProcedures(content))
  ELSE <<>>

\* /\)\s*\{/.test(content)
BraceAfterParen(content) ==
  \E i \in 1..Len(content) : content[i] = ")" /\ At(content, SkipSpaces(content, i + 1)) = "{"

BraceMessage == <<"C","u","r","l","y"," ","b","r","a","c","e"," ","s","h","o","u","l","d"," ","b","e"," ","o","n"," ","a"," ","n","e","w"," ","l","i","n","e",".">>

\* the brace check asking no configuration
BraceRuleUngated(filePath, content, rules) ==
  IF BraceAfterParen(content)
  THEN <<Finding(StrV(<<"m","i","n","o","r">>), "braceOnNewLine", filePath, BraceMessage)>>
  ELSE <<>>

\* formatting: basic brace new line check
BraceRule(filePath, content, rules) ==
  IF Truthy(Opt(rules.formatting, "braceOnNewLine")) /\ BraceAfterParen(content)
  THEN <<Finding(OrElse(rules.formatting.severity, StrV(<<"m","i","n","o","r">>)), "braceOnNewLine", filePath,
                 BraceMessage)>>
  ELSE <<>>

\* \bbegin\b under the i flag at position j
BeginAt(s, j) ==
  HasLitAtI(s, j, <<"b","e","g","i","n">>) /\ ~IsWordChar(At(s, j - 1)) /\ ~IsWordChar(At(s, j + 5))

\* content.match(/var\s*([\s\S]*?)\bbegin\b/i): <<the captured group>>, <<>> on no match
VarBlock(content) ==
  LET Group(i, bs) ==
        IF bs = {} THEN <<>> ELSE <<SubSeq(content, SkipSpaces(content, i + 3), Min(bs) - 1)>>
      From(i) == Group(i, {j \in (i + 3)..Len(content) : BeginAt(content, j)})
      First(vs) == IF vs = {} THEN <<>> ELSE From(Min(vs))
  IN First({i \in 1..Len(content) : HasLitAtI(content, i, <<"v","a","r">>)})

\* matchAll(/([A-Za-z_][A-Za-z0-9_]*)\s*:/g) on the captured group, the names in order
VarNameMatchAt(t, i) ==
  IsIdentStart(t[i]) /\ At(t, SkipSpaces(t, SkipWordChars(t, i + 1))) = ":"

RECURSIVE VarNames(_, _)
VarNames(t, i) ==
  LET Name(b, e) == <<SubSeq(t, b, e - 1)>> \o VarNames(t, SkipSpaces(t, e) + 1)
      MatchAt(b) == Name(b, SkipWordChars(t, b + 1))
      From(starts) == IF starts = {} THEN <<>> ELSE MatchAt(Min(starts))
  IN From({j \in i..Len(t) : VarNameMatchAt(t, j)})

\* the count without the word boundaries: every occurrence of the name as a substring
CountWordAnywhere(content, v) ==
  Cardinality({i \in 1..Len(content) : HasLitAt(content, i, v)})

\* (content.match(/\bV\b/g) || []).length
CountWord(content, v) ==
  Cardinality({i \in 1..Len(content) :
                 HasLitAt(content, i, v) /\ ~IsWordChar(At(content, i - 1))
                 /\ ~IsWordChar(At(content, i + Len(v)))})

UnusedMessage(v) == <<"V","a","r","i","a","b","l","e"," ","'">> \o v \o <<"'"," ","a","p","p","e","a","r","s"," ","u","n","u","s","e","d",".">>

\* unused variable simple heuristic: it asks no rule of the configuration
UnusedVariableRule(filePath, content) ==
  LET Findings(unused) ==
        [k \in 1..Len(unused) |->
           Finding(StrV(<<"m","i","n","o","r">>), "unusedVariable", filePath, UnusedMessage(unused[k]))]
      Of(varBlock) ==
        IF varBlock = <<>> THEN <<>>
        ELSE Findings(SelectSeq(VarNames(varBlock[1], 1), LAMBDA v : CountWord(content, v) <= 1))
  IN Of(VarBlock(content))

\* lintFile: raised when the object prefix rule throws, else the findings in rule order
lintFile(filePath, content, rules) ==
  LET Rest(op) ==
        IF op.raised THEN [raised |-> TRUE, findings |-> <<>>]
        ELSE [raised |-> FALSE,
              findings |-> op.findings \o XmlDocRule(filePath, content, rules)
                           \o BraceRule(filePath, content, rules)
                           \o UnusedVariableRule(filePath, content)]
  IN Rest(ObjectPrefixRule(filePath, content, rules))

\* renderReview: the keys of bySeverity, and whether
\* bySeverity[f.severity ?? 'info'].push(f) throws for some finding
SeverityNames == {<<"b","l","o","c","k","e","r">>, <<"m","a","j","o","r">>, <<"m","i","n","o","r">>, <<"i","n","f","o">>}

renderReviewRaises(findings) ==
  \E k \in 1..Len(findings) :
    /\ findings[k].severity # Undefined
    /\ ~(findings[k].severity.t = "string" /\ findings[k].severity.str \in SeverityNames)

\* ---------------------------------------------------------------------------
\* proposeFixes: the edits computed for one file from its findings.
\* Lines and columns are 0-based as in the source; lines[i + 1] is line i.
\* ---------------------------------------------------------------------------
Edit(startLine, startCol, endLine, endCol, newText) ==
  [range |-> [start |-> [line |-> startLine, column |-> startCol],
              end |-> [line |-> endLine, column |-> endCol]],
   newText |-> newText]

\* msg.match(/Variable '([^']+)'/), '' on no match
extractVarNameFromMessage(msg) ==
  LET End(i) == SkipNot(msg, i + 10, "'")
      Ends(i, e) == e > i + 10 /\ At(msg, e) = "'"
      ok(i) == HasLitAt(msg, i, <<"V","a","r","i","a","b","l","e"," ","'">>) /\ Ends(i, End(i))
      Name(i) == SubSeq(msg, i + 10, End(i) - 1)
      First(starts) == IF starts = {} THEN <<>> ELSE Name(Min(starts))
  IN First({i \in 1..Len(msg) : ok(i)})

\* the position after (?:trigger|procedure) at i under the i flag, 0 on no match
TriggerOrProcedureEndI(s, i) ==
  IF HasLitAtI(s, i, <<"t","r","i","g","g","e","r">>) THEN i + 7
  ELSE IF HasLitAtI(s, i, <<"p","r","o","c","e","d","u","r","e">>) THEN i + 9 ELSE 0

\* msg.match(/for (?:trigger|procedure)\s+([A-Za-z0-9_]+)/i), 'Member' on no match
extractMemberNameFromMessage(msg) ==
  LET Named(a, n) == a > 0 /\ n > a /\ IsWordChar(At(msg, n))
      Keyword(a) == Named(a, SkipSpaces(msg, a))
      ok(i) == HasLitAtI(msg, i, <<"f","o","r"," ">>) /\ Keyword(TriggerOrProcedureEndI(msg, i + 4))
      Word(n) == SubSeq(msg, n, SkipWordChars(msg, n) - 1)
      Name(i) == Word(SkipSpaces(msg, TriggerOrProcedureEndI(msg, i + 4)))
      First(starts) == IF starts = {} THEN <<"M","e","m","b","e","r">> ELSE Name(Min(starts))
  IN First({i \in 1..Len(msg) : ok(i)})

\* /^\s*var\b/i.test(l)
IsVarLine(l) ==
  LET Word(k) == HasLitAtI(l, k, <<"v","a","r">>) /\ ~IsWordChar(At(l, k + 3))
  IN Word(SkipSpaces(l, 1))

\* /\bbegin\b/i.test(l)
HasBegin(l) == \E j \in 1..Len(l) : BeginAt(l, j)

\* new RegExp(`^\\s*${escapeRegExp(varName)}\\s*:\\s*[^;]+;\\s*$`).test(l)
IsDeclLine(l, varName) ==
  LET Type(k, c, sc) ==
        /\ HasLitAt(l, k, varName)
        /\ At(l, c) = ":"
        /\ sc > c + 1
        /\ At(l, sc) = ";"
        /\ SkipSpaces(l, sc + 1) > Len(l)
      Colon(k, c) == Type(k, c, SkipNot(l, c + 1, ";"))
      Name(k) == Colon(k, SkipSpaces(l, k + Len(varName)))
  IN Name(SkipSpaces(l, 1))

\* lines.findIndex(test), 0-based, -1 when no line passes
FindIndex(lines, test(_)) ==
  LET First(hits) == IF hits = {} THEN -1 ELSE Min(hits) - 1
  IN First({i \in 1..Len(lines) : test(lines[i])})

\* the first 0-based line in lo..hi that declares varName, -1 when there is none
FirstDeclLine(lines, lo, hi, varName) ==
  LET First(hits) == IF hits = {} THEN -1 ELSE Min(hits)
  IN First({i \in lo..hi : i >= 0 /\ i < Len(lines) /\ IsDeclLine(lines[i + 1], varName)})

\* the unusedVariable branch: the edits pushed for one finding
UnusedVariableEdits(lines, f) ==
  LET Delete(i) == IF i = -1 THEN <<>> ELSE <<Edit(i, 0, i + 1, 0, <<>>)>>
      Search(varStart, beginLine, varName) ==
        IF varStart # -1 /\ beginLine # -1 /\ beginLine > varStart
        THEN FirstDeclLine(lines, varStart + 1, beginLine - 1, varName)
        ELSE FirstDeclLine(lines, 0, Len(lines) - 1, varName)
  IN Delete(Search(FindIndex(lines, IsVarLine), FindIndex(lines, HasBegin),
                   extractVarNameFromMessage(f.message)))

LowerStr(s) == [k \in 1..Len(s) |-> ToLower(s[k])]

\* the position after (?:trigger|procedure|local\s+procedure) at i under the i flag
MemberKeywordEndI(s, i) ==
  LET Local(b) ==
        IF HasLitAtI(s, i, <<"l","o","c","a","l">>) /\ b > i + 5 /\ HasLitAtI(s, b, <<"p","r","o","c","e","d","u","r","e">>)
        THEN b + 9 ELSE 0
      Or(a) == IF a > 0 THEN a ELSE Local(SkipSpaces(s, i + 5))
  IN Or(TriggerOrProcedureEndI(s, i))

\* new RegExp(`\\b(?:trigger|procedure|local\\s+procedure)\\s+${name}\\b`, 'i').test(l)
DeclaresMember(l, name) ==
  LET Name(j, a, c) ==
        /\ ~IsWordChar(At(l, j - 1))
        /\ a > 0
        /\ c > a
        /\ HasLitAtI(l, c, LowerStr(name))
        /\ IsWordChar(At(l, c + Len(name) - 1)) # IsWordChar(At(l, c + Len(name)))
      Keyword(j, a) == Name(j, a, SkipSpaces(l, a))
  IN \E j \in 1..Len(l) : Keyword(j, MemberKeywordEndI(l, j))

XmlDocStub(name) ==
  Join(<<<<" "," "," "," ","/","/","/"," ","<","s","u","m","m","a","r","y",">">>, <<" "," "," "," ","/","/","/"," ","T","O","D","O",":"," ","D","o","c","u","m","e","n","t"," ">> \o name, <<" "," "," "," ","/","/","/"," ","<","/","s","u","m","m","a","r","y",">">>>>, <<LF>>)
  \o <<LF>>

\* the xmlDoc branch
XmlDocEdits(lines, f) ==
  LET Insert(name, idx) == IF idx = -1 THEN <<>> ELSE <<Edit(idx, 0, idx, 0, XmlDocStub(name))>>
      Above(name) == Insert(name, FindIndex(lines, LAMBDA l : DeclaresMember(l, name)))
  IN Above(extractMemberNameFromMessage(f.message))

\* l.match(/^(.*\))\s*\{\s*$/): the position of the ) that ends group 1, 0 on no match
BraceLineHead(l) ==
  LET Brace(r, b) ==
        /\ l[r] = ")"
        /\ \A k \in 1..(r - 1) : l[k] \notin {LF, CR}
        /\ At(l, b) = "{"
        /\ SkipSpaces(l, b + 1) > Len(l)
      ok(r) == Brace(r, SkipSpaces(l, r + 1))
      Last(rs) == IF rs = {} THEN 0 ELSE Max(rs)
  IN Last({r \in 1..Len(l) : ok(r)})

\* the braceOnNewLine branch
BraceEdits(lines, f) ==
  LET Split(i, l) == <<Edit(i, 0, i + 1, 0, SubSeq(l, 1, BraceLineHead(l)) \o <<LF, "{", LF>>)>>
      OnLine(i) == IF i = -1 THEN <<>> ELSE Split(i, lines[i + 1])
  IN OnLine(FindIndex(lines, LAMBDA l : BraceLineHead(l) > 0))

EditsOfFinding(lines, f) ==
  CASE f.rule = "unusedVariable" -> UnusedVariableEdits(lines, f)
    [] f.rule = "xmlDoc" -> XmlDocEdits(lines, f)
    [] f.rule = "braceOnNewLine" -> BraceEdits(lines, f)
    [] OTHER -> <<>>

\* the body of the loop over byFile: the edits of one file, in the order of its findings
ProposeFileEdits(text, flist) ==
  LET lines == SplitLines(text)
  IN Concat([k \in 1..Len(flist) |-> EditsOfFinding(lines, flist[k])])

\* ---------------------------------------------------------------------------
\* applyEdits: the new text of one file.
\* ---------------------------------------------------------------------------
\* the comparator of sorted: a goes before b
SortsBefore(a, b) ==
  \/ a.range.start.line > b.range.start.line
  \/ /\ a.range.start.line = b.range.start.line
     /\ a.range.start.column > b.range.start.column

\* Array.prototype.sort is stable: an edit goes before the first one it sorts before
InsertEdit(sorted, e) ==
  LET later == {k \in 1..Len(sorted) : SortsBefore(e, sorted[k])}
  IN IF later = {} THEN Append(sorted, e)
     ELSE SubSeq(sorted, 1, Min(later) - 1) \o <<e>> \o SubSeq(sorted, Min(later), Len(sorted))

RECURSIVE SortEdits(_)
SortEdits(edits) ==
  IF edits = <<>> THEN <<>>
  ELSE InsertEdit(SortEdits(SubSeq(edits, 1, Len(edits) - 1)), edits[Len(edits)])

\* the terminator length taken to be that of a line feed for every file
NewlineLenLF(text) == Len(<<LF>>)

\* text.includes('\r\n') ? 2 : 1
NewlineLen(text) == IF StrIncludes(text, <<CR, LF>>) THEN 2 ELSE 1

RECURSIVE SumLens(_, _, _)
SumLens(lines, n, newlineLen) ==
  IF n = 0 THEN 0 ELSE SumLens(lines, n - 1, newlineLen) + Len(lines[n]) + newlineLen

\* indexFromPos: the 0-based offset; reading lines[i] past the last line throws
IndexThrows(lines, line) == line > Len(lines)

indexFromPos(lines, line, col, newlineLen) == SumLens(lines, line, newlineLen) + col

\* newText.slice(0, start) + e.newText + newText.slice(end)
Splice(newText, start, end, ins) == Slice(newText, 0, start) \o ins \o SliceFrom(newText, end)

RECURSIVE ApplySorted(_, _, _, _)
ApplySorted(newText, lines, newlineLen, sorted) ==
  IF sorted = <<>> THEN newText
  ELSE LET e == Head(sorted)
       IN ApplySorted(Splice(newText,
                             indexFromPos(lines, e.range.start.line, e.range.start.column, newlineLen),
                             indexFromPos(lines, e.range.end.line, e.range.end.column, newlineLen),
                             e.newText),
                      lines, newlineLen, Tail(sorted))

\* the offsets start and end that the loop over sorted computes for each edit,
\* listed in the order of f.edits; none when indexFromPos throws
EditSpans(text, edits) ==
  LET Spans(lines, newlineLen) ==
        IF \E k \in 1..Len(edits) : \/ IndexThrows(lines, edits[k].range.start.line)
                                      \/ IndexThrows(lines, edits[k].range.end.line)
        THEN <<>>
        ELSE [k \in 1..Len(edits) |->
                [start |-> indexFromPos(lines, edits[k].range.start.line, edits[k].range.start.column, newlineLen),
                 end |-> indexFromPos(lines, edits[k].range.end.line, edits[k].range.end.column, newlineLen)]]
  IN Spans(SplitLines(text), NewlineLen(text))

\* the body of the loop over files between the read and the write
ApplyFileEdits(text, edits) ==
  LET lines == SplitLines(text)
  IN IF \E k \in 1..Len(edits) : \/ IndexThrows(lines, edits[k].range.start.line)
                                 \/ IndexThrows(lines, edits[k].range.end.line)
     THEN [raised |-> TRUE, text |-> text]
     ELSE [raised |-> FALSE,
           text |-> ApplySorted(text, lines, NewlineLen(text), SortEdits(edits))]

\* ---------------------------------------------------------------------------
\* Inputs.  A file is a list of source lines joined by a terminator.  Each line
\* is written down together with what it declares, so that the formulas below
\* can speak of "the first object header" or "an undocumented procedure"
\* without asking the operators under test.
\* ---------------------------------------------------------------------------
MaxLines == 3

Line(text, hdrType, hdrName, member, memberName, lineInitial, isDoc) ==
  [text |-> text, hdrType |-> hdrType, hdrName |-> hdrName, member |-> member,
   memberName |-> memberName, lineInitial |-> lineInitial, isDoc |-> isDoc]

Plain(text) == Line(text, <<>>, <<>>, "none", <<>>, FALSE, FALSE)

HeaderLine(text, type, name) == Line(text, type, name, "none", <<>>, FALSE, FALSE)

MemberLine(text, member, name, lineInitial) == Line(text, <<>>, <<>>, member, name, lineInitial, FALSE)

HeaderLines ==
  { HeaderLine(<<"t","a","b","l","e"," ","1"," ","\"","T","E","S","a","\"">>, <<"t","a","b","l","e">>, <<"T","E","S","a">>),
    HeaderLine(<<"t","a","b","l","e"," ","2"," ","\"","C","u","s","t","\"">>, <<"t","a","b","l","e">>, <<"C","u","s","t">>),
    HeaderLine(<<"P","a","g","e"," ","3"," ","\"","C","u","s","t","\"">>, <<"p","a","g","e">>, <<"C","u","s","t">>),
    HeaderLine(<<"x","t","a","b","l","e"," "," ","4","0"," ","\"","a","T","E","S","\""," ","e","x","t","e","n","d","s"," ","\"","T","E","S","a","\"">>, <<"t","a","b","l","e">>, <<"a","T","E","S">>),
    Plain(<<"t","a","b","l","e"," ","\"","T","E","S","a","\"">>) }

DocLines ==
  { Line(<<"/","/","/"," ","d","o","c">>, <<>>, <<>>, "none", <<>>, FALSE, TRUE),
    MemberLine(<<"p","r","o","c","e","d","u","r","e"," ","F","o","o","(",")">>, "procedure", <<"F","o","o">>, TRUE),
    MemberLine(<<" "," ","l","o","c","a","l"," ","p","r","o","c","e","d","u","r","e"," ","F","o","o","(",")">>, "procedure", <<"F","o","o">>, TRUE),
    MemberLine(<<"x"," ","p","r","o","c","e","d","u","r","e"," ","B","a","r","(",")">>, "procedure", <<"B","a","r">>, FALSE),
    MemberLine(<<"t","r","i","g","g","e","r"," ","O","n","R","u","n","(",")">>, "trigger", <<"O","n","R","u","n">>, TRUE),
    Plain(<<"t","r","i","g","g","e","r"," ","R","u","n","(",")">>) }

BraceLine == Plain(<<"f", "(", ")", " ", "{">>)
VarLine == Plain(<<"v","a","r">>)
DeclLine == Plain(<<" "," ","C","t","r",":"," ","I","n","t","e","g","e","r",";">>)
BeginLine == Plain(<<"b","e","g","i","n">>)
UseLine == Plain(<<"C","t","r"," ",":","="," ","1",";">>)

MixedLines ==
  { HeaderLine(<<"t","a","b","l","e"," ","2"," ","\"","C","u","s","t","\"">>, <<"t","a","b","l","e">>, <<"C","u","s","t">>),
    MemberLine(<<"p","r","o","c","e","d","u","r","e"," ","F","o","o","(",")">>, "procedure", <<"F","o","o">>, TRUE),
    BraceLine, VarLine, DeclLine, BeginLine }

\* the lists of 1..n lines drawn from a set of lines
LineLists(lines, n) == UNION {[1..k -> lines] : k \in 1..n}

\* the text of a file
Render(lineList, nl) == Join([k \in 1..Len(lineList) |-> lineList[k].text], nl)

\* rule configurations
NoSection == [present |-> FALSE]

ObjectPrefixSection(prefix, applyTo, severity) ==
  [present |-> TRUE, requiredPrefix |-> prefix, applyTo |-> applyTo, severity |-> severity]

DocumentationSection(flag, severity) ==
  [present |-> TRUE, requireXmlDoc |-> flag, severity |-> severity]

FormattingSection(flag, severity) ==
  [present |-> TRUE, braceOnNewLine |-> flag, severity |-> severity]

Rules(op, doc_, fmt) == [objectPrefix |-> op, documentation |-> doc_, formatting |-> fmt]

EmptyRules == Rules(NoSection, NoSection, NoSection)

TES == StrV(<<"T","E","S">>)

\* well-formed objectPrefix sections
GoodPrefixSections ==
  { ObjectPrefixSection(TES, ArrV(<<<<"t","a","b","l","e">>>>), Undefined),
    ObjectPrefixSection(TES, ArrV(<<<<"c","o","d","e","u","n","i","t">>, <<"p","a","g","e">>>>), StrV(<<"b","l","o","c","k","e","r">>)),
    ObjectPrefixSection(TES, ArrV(<<>>), Undefined) }

\* objectPrefix sections with a value of the wrong type
BadPrefixSections ==
  { ObjectPrefixSection(TES, NumV(5), Undefined),
    ObjectPrefixSection(TES, StrV(<<"t","a","b","l","e","e","x","t","e","n","s","i","o","n">>), Undefined),
    ObjectPrefixSection(NumV(7), ArrV(<<<<"t","a","b","l","e">>>>), Undefined),
    ObjectPrefixSection(BoolV(TRUE), ArrV(<<<<"t","a","b","l","e">>>>), Undefined) }

PrefixRules == {Rules(s, NoSection, NoSection) : s \in {NoSection} \cup GoodPrefixSections \cup BadPrefixSections}

DocRules ==
  { EmptyRules,
    Rules(NoSection, DocumentationSection(BoolV(TRUE), Undefined), NoSection),
    Rules(NoSection, DocumentationSection(BoolV(FALSE), Undefined), NoSection),
    Rules(NoSection, DocumentationSection(BoolV(TRUE), StrV(<<"i","n","f","o">>)), NoSection) }

AllRules ==
  Rules(ObjectPrefixSection(TES, ArrV(<<<<"t","a","b","l","e">>>>), Undefined),
        DocumentationSection(BoolV(TRUE), Undefined),
        FormattingSection(BoolV(TRUE), Undefined))

MixedRules ==
  { EmptyRules, AllRules,
    Rules(NoSection, NoSection, FormattingSection(BoolV(FALSE), Undefined)) }

\* lines for the brace check: a brace after the parenthesis of the same line (with
\* and without a space), a parenthesis that ends its line, a brace that starts its
\* line, a brace before the parenthesis
TightBraceLine == Plain(<<"g","(",")","{">>)
ParenLine == Plain(<<"f","(",")">>)
OpenBraceLine == Plain(<<"{">>)
BraceFirstLine == Plain(<<"{"," ","g","(",")">>)

BraceLines == {BraceLine, TightBraceLine, ParenLine, OpenBraceLine, BraceFirstLine}

BraceRules ==
  { Rules(NoSection, NoSection, FormattingSection(BoolV(TRUE), Undefined)),
    Rules(NoSection, NoSection, FormattingSection(BoolV(TRUE), StrV(<<"i","n","f","o">>))),
    Rules(NoSection, NoSection, FormattingSection(BoolV(TRUE), StrV(<<"c","r","i","t","i","c","a","l">>))),
    Rules(NoSection, NoSection, FormattingSection(BoolV(TRUE), NumV(3))),
    Rules(NoSection, NoSection, FormattingSection(BoolV(FALSE), Undefined)) }

\* lines for the unused variable heuristic: a line declaring Ctr and Num, a begin
\* followed by a use of Ctr, a begin followed by the longer identifier Ctrs
TwoDeclLine == Plain(<<" "," ","C","t","r",":"," ","I","n","t","e","g","e","r",";"," ","N","u","m",":"," ","I","n","t","e","g","e","r",";">>)
BeginUseLine == Plain(<<"b","e","g","i","n"," ","C","t","r"," ",":","="," ","1",";">>)
BeginLongerLine == Plain(<<"B","e","g","i","n"," ","C","t","r","s"," ",":","="," ","2",";">>)

VarLines == {VarLine, DeclLine, TwoDeclLine, BeginLine, BeginUseLine, BeginLongerLine, UseLine}

LintInput(lineList, nl, rules) == [lines |-> lineList, nl |-> nl, rules |-> rules]

LintInputs ==
  {LintInput(l, <<LF>>, r) : l \in LineLists(HeaderLines, MaxLines), r \in PrefixRules}
  \cup {LintInput(l, nl, r) : l \in LineLists(DocLines, MaxLines), nl \in {<<LF>>, <<CR, LF>>}, r \in DocRules}
  \cup {LintInput(l, <<LF>>, r) : l \in LineLists(MixedLines, MaxLines), r \in MixedRules}
  \cup {LintInput(l, nl, r) : l \in LineLists(BraceLines, MaxLines), nl \in {<<LF>>, <<CR, LF>>}, r \in BraceRules}
  \cup {LintInput(l, nl, r) : l \in LineLists(VarLines, MaxLines), nl \in {<<LF>>, <<CR, LF>>}, r \in {EmptyRules, AllRules}}

Idle == [op |-> "none"]

\* ---------------------------------------------------------------------------
\* The rule engine on its own: one call of lintFile.
\* ---------------------------------------------------------------------------
InitLint ==
  /\ inp \in LintInputs
  /\ out = Idle
  /\ disk = <<>>
  /\ access = <<>>
  /\ doc = <<>>
  /\ proposal = <<>>
  /\ applies = 0
  /\ tasks = <<>>

LintFileCall ==
  /\ out = Idle
  /\ out' = [op |-> "lintFile",
             result |-> lintFile("a.al", Render(inp.lines, inp.nl), inp.rules)]
  /\ UNCHANGED <<disk, access, doc, proposal, applies, inp, tasks>>

NextLint == LintFileCall

SpecLint == InitLint /\ [][NextLint]_vars

\* ---------------------------------------------------------------------------
\* Properties of lintFile (SpecLint).
\* ---------------------------------------------------------------------------
Linted == out.op = "lintFile"

FindingsOfRule(fs, rule) == SelectSeq(fs, LAMBDA f : f.rule = rule)

ConfigurableRules == {"objectPrefix", "xmlDoc", "braceOnNewLine"}

\* the configuration enables the rule: its section is present and its switch is truthy
RuleEnabled(rules, rule) ==
  CASE rule = "objectPrefix" ->
         rules.objectPrefix.present /\ Truthy(rules.objectPrefix.requiredPrefix)
         /\ Truthy(rules.objectPrefix.applyTo)
    [] rule = "xmlDoc" -> rules.documentation.present /\ Truthy(rules.documentation.requireXmlDoc)
    [] rule = "braceOnNewLine" -> rules.formatting.present /\ Truthy(rules.formatting.braceOnNewLine)
    [] OTHER -> FALSE

\* C7 as amended: findings of objectPrefix, xmlDoc and braceOnNewLine appear only when
\* the rule's configuration is present and enabled; unusedVariable asks no
\* configuration, so with an empty configuration every finding lintFile returns is
\* an unusedVariable finding.
C7_ConfigurableRulesGated ==
  Linted =>
    /\ \A rule \in ConfigurableRules :
         FindingsOfRule(out.result.findings, rule) # <<>> => RuleEnabled(inp.rules, rule)
    /\ inp.rules = EmptyRules =>
         \A k \in 1..Len(out.result.findings) : out.result.findings[k].rule = "unusedVariable"

\* C7 witness: lintFile has run with an empty configuration and returned a finding.
C7_Witness ==
  /\ Linted
  /\ inp.rules = EmptyRules
  /\ out.result.findings # <<>>

\* C7 as claimed: with an empty rule configuration lintFile returns an empty list
\* for every file content, unusedVariable being gated like the other three rules.
C7_EmptyConfigNoFindings ==
  (Linted /\ inp.rules = EmptyRules) => out.result.findings = <<>>

\* C8 as claimed: a malformed objectPrefix value makes the rule behave as disabled:
\* lintFile does not raise and returns no objectPrefix finding.
C8_MalformedConfigDisablesRule ==
  (Linted /\ inp.rules.objectPrefix \in BadPrefixSections) =>
    /\ ~out.result.raised
    /\ FindingsOfRule(out.result.findings, "objectPrefix") = <<>>

\* the first line that carries an object header, 0 when no line does
FirstHeaderLine(lineList) ==
  LET hs == {k \in 1..Len(lineList) : lineList[k].hdrType # <<>>}
  IN IF hs = {} THEN 0 ELSE Min(hs)

IsPrefixOf(p, s) == Len(p) <= Len(s) /\ SubSeq(s, 1, Len(p)) = p

\* the file's first header has a type in applyTo and a name that lacks the prefix
PrefixViolated(lineList, section) ==
  LET k == FirstHeaderLine(lineList)
  IN /\ k > 0
     /\ \E j \in 1..Len(section.applyTo.arr) : section.applyTo.arr[j] = lineList[k].hdrType
     /\ ~IsPrefixOf(section.requiredPrefix.str, lineList[k].hdrName)

\* C9: with objectPrefix configured, lintFile returns exactly one objectPrefix finding
\* when the first object header of the file has a type in applyTo and a name that does
\* not start with requiredPrefix, and none otherwise; the finding has the configured
\* severity, major by default, and its message names the object and the prefix.
C9_ObjectPrefixOnePerFile ==
  (Linted /\ inp.rules.objectPrefix \in GoodPrefixSections) =>
    LET section == inp.rules.objectPrefix
        fs == FindingsOfRule(out.result.findings, "objectPrefix")
    IN /\ ~out.result.raised
       /\ Len(fs) = IF PrefixViolated(inp.lines, section) THEN 1 ELSE 0
       /\ \A k \in 1..Len(fs) :
            /\ fs[k].severity = IF section.severity.t = "undefined" THEN StrV(<<"m","a","j","o","r">>)
                                ELSE section.severity
            /\ StrIncludes(fs[k].message, inp.lines[FirstHeaderLine(inp.lines)].hdrName)
            /\ StrIncludes(fs[k].message, section.requiredPrefix.str)

\* C9 witness: a file with two headers, the first of which breaks the prefix rule,
\* has been linted and one objectPrefix finding was returned.
C9_Witness ==
  /\ Linted
  /\ inp.rules.objectPrefix \in GoodPrefixSections
  /\ Cardinality({k \in 1..Len(inp.lines) : inp.lines[k].hdrType # <<>>}) >= 2
  /\ Len(FindingsOfRule(out.result.findings, "objectPrefix")) = 1

MemberKinds == {"trigger", "procedure"}

MemberNames == {l.memberName : l \in {d \in DocLines : d.member # "none"}}

KindWord(kind) == IF kind = "trigger" THEN <<"t","r","i","g","g","e","r">> ELSE <<"p","r","o","c","e","d","u","r","e">>

\* the occurrence on line k has a documentation block before it: the declaration
\* starts its line and a /// line stands above it
OccurrenceDocumented(lineList, k) ==
  lineList[k].lineInitial /\ \E j \in 1..(k - 1) : lineList[j].isDoc

UndocumentedOccurrences(lineList, kind, name) ==
  {k \in 1..Len(lineList) : /\ lineList[k].member = kind
                            /\ lineList[k].memberName = name
                            /\ ~OccurrenceDocumented(lineList, k)}

XmlDocFindingsFor(fs, kind, name) ==
  {k \in 1..Len(fs) : /\ fs[k].rule = "xmlDoc"
                      /\ fs[k].message = <<"M","i","s","s","i","n","g"," ","X","M","L"," ","d","o","c"," ","f","o","r"," ">> \o KindWord(kind) \o <<" ">> \o name \o <<".">>}

\* C10 as claimed: with requireXmlDoc enabled, lintFile returns one xmlDoc finding per
\* trigger or procedure occurrence that lacks a preceding documentation block,
\* duplicates included, and none for an occurrence that has one; the message says
\* trigger for a trigger and procedure for a procedure.
C10_OneFindingPerUndocumentedOccurrence ==
  (Linted /\ RuleEnabled(inp.rules, "xmlDoc") /\ inp.lines \in LineLists(DocLines, MaxLines)) =>
    /\ \A kind \in MemberKinds : \A name \in MemberNames :
         Cardinality(XmlDocFindingsFor(out.result.findings, kind, name))
           = Cardinality(UndocumentedOccurrences(inp.lines, kind, name))
    /\ \A k \in 1..Len(out.result.findings) :
         out.result.findings[k].rule = "xmlDoc" =>
           \E kind \in MemberKinds : \E name \in MemberNames :
             k \in XmlDocFindingsFor(out.result.findings, kind, name)

\* ---------------------------------------------------------------------------
\* The edit applier on its own: one file, one batch of edits (SpecEdits).
\* ---------------------------------------------------------------------------
MaxEdits == 2

EditFiles == {<<Plain(<<"a","b">>), Plain(<<"c">>)>>, <<Plain(<<"a">>), Plain(<<>>), Plain(<<"b">>)>>}

NewTexts == {<<>>, <<"X">>, <<"Y","Z">>}

\* the positions inside a file: a line of the file and a column up to its length
Positions(lineList) ==
  {p \in [line : 0..(Len(lineList) - 1), column : 0..2] :
     p.column <= Len(lineList[p.line + 1].text)}

PosLeq(p, q) == p.line < q.line \/ (p.line = q.line /\ p.column <= q.column)

EditsOn(lineList) ==
  {x \in [range : [start : Positions(lineList), end : Positions(lineList)], newText : NewTexts] :
     PosLeq(x.range.start, x.range.end)}

\* the batches of 1..n edits drawn from a set of edits
Batches(edits, n) == UNION {[1..k -> edits] : k \in 1..n}

EditInputs ==
  UNION {{[lines |-> l, nl |-> nl, edits |-> es] :
            nl \in {<<LF>>, <<CR, LF>>}, es \in Batches(EditsOn(l), MaxEdits)} : l \in EditFiles}

InitEdits ==
  /\ inp \in EditInputs
  /\ out = Idle
  /\ disk = <<>>
  /\ access = <<>>
  /\ doc = <<>>
  /\ proposal = <<>>
  /\ applies = 0
  /\ tasks = <<>>

\* one call of applyEdits on one file; besides the new text the outcome records
\* the terminator length and the offsets the call worked with
ApplyEditsCall ==
  LET Call(text) ==
        [op |-> "applyEdits", result |-> ApplyFileEdits(text, inp.edits),
         newlineLen |-> NewlineLen(text), spans |-> EditSpans(text, inp.edits)]
  IN /\ out = Idle
     /\ out' = Call(Render(inp.lines, inp.nl))
     /\ UNCHANGED <<disk, access, doc, proposal, applies, inp, tasks>>

NextEdits == ApplyEditsCall

SpecEdits == InitEdits /\ [][NextEdits]_vars

\* the offset of a position in the text of the file: the length of the text before it
TrueOffset(lineList, nl, pos) ==
  Len(Render(SubSeq(lineList, 1, pos.line) \o <<Plain(<<>>)>>, nl)) + pos.column

\* the end of one edit is at or before the start of the other
NonOverlapping(edits) ==
  \A j \in 1..Len(edits) : \A k \in 1..Len(edits) :
    j # k => \/ PosLeq(edits[j].range.end, edits[k].range.start)
             \/ PosLeq(edits[k].range.end, edits[j].range.start)

\* the orders of the edits by ascending span
AscendingOrders(edits) ==
  {p \in [1..Len(edits) -> 1..Len(edits)] :
     /\ \A j \in 1..Len(edits) : \A k \in 1..Len(edits) : j # k => p[j] # p[k]
     /\ \A j \in 1..(Len(edits) - 1) :
          /\ PosLeq(edits[p[j]].range.start, edits[p[j + 1]].range.start)
          /\ PosLeq(edits[p[j]].range.end, edits[p[j + 1]].range.end)}

\* the original text with each span, from offset from on, replaced by its new text
RECURSIVE Replaced(_, _, _, _, _, _, _)
Replaced(text, lineList, nl, edits, p, j, from) ==
  IF j > Len(edits) THEN SliceFrom(text, from)
  ELSE Slice(text, from, TrueOffset(lineList, nl, edits[p[j]].range.start))
       \o edits[p[j]].newText
       \o Replaced(text, lineList, nl, edits, p, j + 1, TrueOffset(lineList, nl, edits[p[j]].range.end))

\* the texts the batch denotes (two insertions at one position may go in either order)
ReplacedTexts(lineList, nl, edits) ==
  {Replaced(Render(lineList, nl), lineList, nl, edits, p, 1, 0) : p \in AscendingOrders(edits)}

\* C2: for a file with uniform terminators and pairwise non-overlapping
\* edits in any input order, applyEdits produces the original text with each
\* addressed span replaced by its newText.
C2_NonOverlappingEditsReplaceSpans ==
  (out.op = "applyEdits" /\ NonOverlapping(inp.edits)) =>
    /\ ~out.result.raised
    /\ out.result.text \in ReplacedTexts(inp.lines, inp.nl, inp.edits)

\* the same, for batches in which no two edits start at the same position
DistinctStartsReplaceSpans ==
  (/\ out.op = "applyEdits"
   /\ NonOverlapping(inp.edits)
   /\ \A j \in 1..Len(inp.edits) : \A k \in 1..Len(inp.edits) :
        j # k => inp.edits[j].range.start # inp.edits[k].range.start) =>
    /\ ~out.result.raised
    /\ out.result.text \in ReplacedTexts(inp.lines, inp.nl, inp.edits)

\* ---------------------------------------------------------------------------
\* The repository: lintRepo, proposeFixes and applyEdits over the files on disk.
\* fs.readFile fails on a file that is missing or unreadable, fs.writeFile on a
\* file that is not writable; a failure is an exception that ends the call.
\* ---------------------------------------------------------------------------
Files == <<"a.al", "b.al">>

FileSet == {Files[k] : k \in 1..Len(Files)}

AccessKinds == {"ok", "unreadable", "readonly"}

\* globby(['**/*.al']): the files that exist, in enumeration order
RepoFiles(d) == SelectSeq(Files, LAMBDA f : f \in DOMAIN d)

CanRead(acc, f) == f \in DOMAIN acc /\ acc[f] # "unreadable"

CanWrite(acc, f) == f \in DOMAIN acc /\ acc[f] = "ok"

\* the loop of lintRepo from the k-th enumerated file on, all being the findings so far
RECURSIVE LintFrom(_, _, _, _, _, _)
LintFrom(d, acc, files, rules, k, all) ==
  LET Scanned(r) ==
        IF r.raised THEN [raised |-> TRUE, path |-> "", findings |-> <<>>]
        ELSE LintFrom(d, acc, files, rules, k + 1, all \o r.findings)
  IN IF k > Len(files) THEN [raised |-> FALSE, path |-> "", findings |-> all]
     ELSE IF ~CanRead(acc, files[k]) THEN [raised |-> TRUE, path |-> files[k], findings |-> <<>>]
     ELSE Scanned(lintFile(files[k], d[files[k]], rules))

\* lintRepo that steps over the files it cannot read
lintRepoSkipUnreadable(d, acc, files, rules) ==
  LintFrom(d, acc, SelectSeq(files, LAMBDA f : CanRead(acc, f)), rules, 1, <<>>)

lintRepo(d, acc, files, rules) == LintFrom(d, acc, files, rules, 1, <<>>)

\* the keys of byFile in insertion order
RECURSIVE FilesOfFindings(_)
FilesOfFindings(findings) ==
  IF findings = <<>> THEN <<>>
  ELSE LET rest == FilesOfFindings(SubSeq(findings, 1, Len(findings) - 1))
           f == findings[Len(findings)].file
       IN IF \E k \in 1..Len(rest) : rest[k] = f THEN rest ELSE Append(rest, f)

\* proposeFixes without the test of edits.length: every file with findings is listed
proposeFixesKeepEmpty(d, acc, findings) ==
  LET FileEdits(rel) ==
        [file |-> rel,
         edits |-> ProposeFileEdits(d[rel], SelectSeq(findings, LAMBDA f : f.file = rel))]
      Read(rels, bad) ==
        IF bad # {} THEN [raised |-> TRUE, path |-> rels[Min(bad)], files |-> <<>>]
        ELSE [raised |-> FALSE, path |-> "", files |-> [k \in 1..Len(rels) |-> FileEdits(rels[k])]]
      ByFile(rels) == Read(rels, {k \in 1..Len(rels) : ~CanRead(acc, rels[k])})
  IN ByFile(FilesOfFindings(findings))

proposeFixes(d, acc, findings) ==
  LET FileEdits(rel) ==
        [file |-> rel,
         edits |-> ProposeFileEdits(d[rel], SelectSeq(findings, LAMBDA f : f.file = rel))]
      Read(rels, bad) ==
        IF bad # {} THEN [raised |-> TRUE, path |-> rels[Min(bad)], files |-> <<>>]
        ELSE [raised |-> FALSE, path |-> "",
              files |-> SelectSeq([k \in 1..Len(rels) |-> FileEdits(rels[k])], LAMBDA p : p.edits # <<>>)]
      ByFile(rels) == Read(rels, {k \in 1..Len(rels) : ~CanRead(acc, rels[k])})
  IN ByFile(FilesOfFindings(findings))

\* the loop of applyEdits from the k-th file on: d is the disk and results the
\* results array so far; an exception leaves both as they are at that point
RECURSIVE ApplyFrom(_, _, _, _, _)
ApplyFrom(d, acc, files, k, results) ==
  LET Stop(path) == [raised |-> TRUE, path |-> path, disk |-> d, results |-> results]
      Write(f, r) ==
        IF r.raised THEN Stop("")
        ELSE IF ~CanWrite(acc, f.file) THEN Stop(f.file)
        ELSE ApplyFrom([d EXCEPT ![f.file] = r.text], acc, files, k + 1,
                       Append(results, [file |-> f.file, applied |-> Len(f.edits)]))
      Read(f) ==
        IF ~CanRead(acc, f.file) THEN Stop(f.file)
        ELSE Write(f, ApplyFileEdits(d[f.file], f.edits))
  IN IF k > Len(files) THEN [raised |-> FALSE, path |-> "", disk |-> d, results |-> results]
     ELSE Read(files[k])

applyEdits(d, acc, files) == ApplyFrom(d, acc, files, 1, <<>>)

\* ---------------------------------------------------------------------------
\* The entry points.  A response is what the caller gets: kind is "json" for a
\* data result, "text" for an explanatory text, "info" for an editor message,
\* "error" for an exception (a failed request, a non-zero exit) and "silent"
\* for a return that tells the caller nothing.
\* ---------------------------------------------------------------------------
Response(op, confirmed, kind, path, findings, files, applied) ==
  [op |-> op, confirmed |-> confirmed, kind |-> kind, path |-> path,
   findings |-> findings, files |-> files, applied |-> applied]

\* Array.isArray(args.focusRules) && args.focusRules.length ? findings.filter(...) : findings
FilterByFocus(findings, focusRules) ==
  IF focusRules # <<>>
  THEN SelectSeq(findings, LAMBDA f : \E k \in 1..Len(focusRules) : focusRules[k] = f.rule)
  ELSE findings

\* tool lint_al_repository
LintTool ==
  LET Answer(r) ==
        IF r.raised THEN Response("lint_al_repository", FALSE, "error", r.path, <<>>, <<>>, <<>>)
        ELSE Response("lint_al_repository", FALSE, "json", "", r.findings, <<>>, <<>>)
  IN /\ out' = Answer(lintRepo(disk, access, RepoFiles(disk), inp.rules))
     /\ UNCHANGED <<disk, access, doc, proposal, applies, inp, tasks>>

\* tool propose_fixes: the caller keeps the proposal it is given
ProposeFixesTool(focusRules) ==
  LET Failed(path) ==
        /\ out' = Response("propose_fixes", FALSE, "error", path, <<>>, <<>>, <<>>)
        /\ UNCHANGED proposal
      Proposed(p) ==
        IF p.raised THEN Failed(p.path)
        ELSE /\ out' = Response("propose_fixes", FALSE, "json", "", <<>>, p.files, <<>>)
             /\ proposal' = p.files
      Scanned(r) ==
        IF r.raised THEN Failed(r.path)
        ELSE Proposed(proposeFixes(disk, access, FilterByFocus(r.findings, focusRules)))
  IN /\ Scanned(lintRepo(disk, access, RepoFiles(disk), inp.rules))
     /\ UNCHANGED <<disk, access, doc, applies, inp, tasks>>

\* tool apply_edits with the proposal the caller holds
ApplyEditsTool(confirm) ==
  LET Applied(r) ==
        /\ disk' = r.disk
        /\ out' = IF r.raised THEN Response("apply_edits", TRUE, "error", r.path, <<>>, <<>>, <<>>)
                  ELSE Response("apply_edits", TRUE, "json", "", <<>>, <<>>, r.results)
        /\ applies' = applies + 1
        /\ UNCHANGED <<access, doc, proposal, inp, tasks>>
  IN IF ~confirm
     THEN /\ out' = Response("apply_edits", FALSE, "text", "", <<>>, <<>>, <<>>)
          /\ UNCHANGED <<disk, access, doc, proposal, applies, inp, tasks>>
     ELSE Applied(applyEdits(disk, access, proposal))

\* node index.mjs apply --proposal FILE --confirm BOOL, FILE holding the proposal the
\* caller keeps; cli() scans the repository before it looks at the command
CliApply(confirm) ==
  LET Applied(r) ==
        /\ disk' = r.disk
        /\ out' = IF r.raised THEN Response("cli apply", TRUE, "error", r.path, <<>>, <<>>, <<>>)
                  ELSE Response("cli apply", TRUE, "json", "", <<>>, <<>>, r.results)
        /\ applies' = applies + 1
        /\ UNCHANGED <<access, doc, proposal, inp, tasks>>
      Scanned(scan) ==
        IF scan.raised
        THEN /\ out' = Response("cli apply", confirm, "error", scan.path, <<>>, <<>>, <<>>)
             /\ UNCHANGED <<disk, access, doc, proposal, applies, inp, tasks>>
        ELSE IF ~confirm
        THEN /\ out' = Response("cli apply", FALSE, "text", "", <<>>, <<>>, <<>>)
             /\ UNCHANGED <<disk, access, doc, proposal, applies, inp, tasks>>
        ELSE Applied(applyEdits(disk, access, proposal))
  IN Scanned(lintRepo(disk, access, RepoFiles(disk), inp.rules))

\* ---------------------------------------------------------------------------
\* The editor command tesAl.applyFileFixes on the document of ActiveFile.
\* ---------------------------------------------------------------------------
ActiveFile == "a.al"

\* the offset of a vscode.Position in the document: the line counted by line
\* feeds, the column clamped to the line
DocOffset(text, pos) ==
  LET lfs == {i \in 1..Len(text) : text[i] = LF}
      EndOf(start, nl) == IF nl > 1 /\ text[nl - 1] = CR /\ nl - 1 > start THEN nl - 2 ELSE nl - 1
      Stop(start, after) == IF after = {} THEN Len(text) ELSE EndOf(start, Min(after))
      Column(start) == Min({start + pos.column, Stop(start, {i \in lfs : i > start})})
  IN Column(IF pos.line = 0 THEN 0
            ELSE IF Cardinality(lfs) < pos.line THEN Len(text)
            ELSE CHOOSE i \in lfs : Cardinality({j \in lfs : j <= i}) = pos.line)

\* the replacements of an edit builder, lowest offset first; editor.edit rejects
\* ranges that overlap
RECURSIVE DocReplaced(_, _, _, _)
DocReplaced(text, spans, from, todo) ==
  LET Next(k) ==
        Slice(text, from, spans[k].s) \o spans[k].newText
        \o DocReplaced(text, spans, spans[k].e, todo \ {k})
  IN IF todo = {} THEN SliceFrom(text, from)
     ELSE Next(CHOOSE k \in todo : \A j \in todo :
                 \/ spans[k].s < spans[j].s
                 \/ spans[k].s = spans[j].s /\ spans[k].e < spans[j].e
                 \/ spans[k].s = spans[j].s /\ spans[k].e = spans[j].e /\ k <= j)

applyEditsToEditor(text, fileEdits) ==
  LET Span(e, s, t) == [s |-> s, e |-> Max({s, t}), newText |-> e.newText]
      Replace(spans) ==
        IF \E j, k \in 1..Len(spans) : j # k /\ spans[j].s < spans[k].e /\ spans[k].s < spans[j].e
        THEN [applied |-> FALSE, text |-> text]
        ELSE [applied |-> TRUE, text |-> DocReplaced(text, spans, 0, 1..Len(spans))]
  IN Replace([k \in 1..Len(fileEdits) |->
                Span(fileEdits[k], DocOffset(text, fileEdits[k].range.start),
                     DocOffset(text, fileEdits[k].range.end))])

\* applyFileFixes: the proposal comes from `node index.mjs propose`, choice is the
\* button the modal question is answered with
ApplyFileFixes(choice) ==
  LET Answer(confirmed, kind, path) ==
        /\ out' = Response("applyFileFixes", confirmed, kind, path, <<>>, <<>>, <<>>)
        /\ UNCHANGED <<disk, access, proposal, inp, tasks>>
      Edited(r) ==
        /\ doc' = r.text
        /\ applies' = applies + 1
        /\ Answer(TRUE, IF r.applied THEN "info" ELSE "error", "")
      Asked(mine) ==
        IF mine = <<>> THEN Answer(FALSE, "info", "") /\ UNCHANGED <<doc, applies>>
        ELSE IF choice # "Apply" THEN Answer(FALSE, "silent", "") /\ UNCHANGED <<doc, applies>>
        ELSE Edited(applyEditsToEditor(doc, mine[1].edits))
      Proposed(p) ==
        IF p.raised THEN Answer(FALSE, "error", p.path) /\ UNCHANGED <<doc, applies>>
        ELSE Asked(SelectSeq(p.files, LAMBDA f : f.file = ActiveFile))
      Scanned(scan) ==
        IF scan.raised THEN Answer(FALSE, "error", scan.path) /\ UNCHANGED <<doc, applies>>
        ELSE Proposed(proposeFixes(disk, access, scan.findings))
  IN Scanned(lintRepo(disk, access, RepoFiles(disk), inp.rules))

\* ---------------------------------------------------------------------------
\* SpecCycle: one file is scanned, fixes are proposed for it, the proposal is
\* applied with confirmation and the repository is scanned again.
\* ---------------------------------------------------------------------------
CycleLines ==
  { MemberLine(<<"p","r","o","c","e","d","u","r","e"," ","F","o","o","(",")">>, "procedure", <<"F","o","o">>, TRUE),
    BraceLine, VarLine, DeclLine, BeginLine, UseLine }

Terminators == {<<LF>>, <<CR, LF>>}

\* the text of a file whose k-th line ends with nls[k]
RECURSIVE RenderWith(_, _)
RenderWith(lineList, nls) ==
  IF Len(lineList) = 1 THEN lineList[1].text
  ELSE lineList[1].text \o nls[1] \o RenderWith(Tail(lineList), Tail(nls))

FocusChoices == {<<>>, <<"unusedVariable">>}

\* the documentation rule alone
DocOnlyRules == Rules(NoSection, DocumentationSection(BoolV(TRUE), Undefined), NoSection)

CycleInputs ==
  UNION {{[lines |-> l, nls |-> t, rules |-> r, focusRules |-> fr] :
            t \in [1..(Len(l) - 1) -> Terminators], r \in {AllRules, EmptyRules}, fr \in FocusChoices} :
         l \in LineLists(CycleLines, MaxLines)}
  \cup UNION {{[lines |-> l, nls |-> t, rules |-> DocOnlyRules, focusRules |-> <<>>] :
                 t \in [1..(Len(l) - 1) -> Terminators]} :
              l \in LineLists(DocLines, MaxLines)}

CycleText == RenderWith(inp.lines, inp.nls)

InitCycle ==
  /\ inp \in CycleInputs
  /\ disk = [f \in {ActiveFile} |-> RenderWith(inp.lines, inp.nls)]
  /\ access = [f \in {ActiveFile} |-> "ok"]
  /\ doc = <<>>
  /\ proposal = <<>>
  /\ applies = 0
  /\ tasks = <<>>
  /\ out = Idle

CyclePropose == out.op = "none" /\ ProposeFixesTool(inp.focusRules)

CycleApply == out.op = "propose_fixes" /\ ApplyEditsTool(TRUE)

CycleRescan == out.op = "apply_edits" /\ LintTool

NextCycle == CyclePropose \/ CycleApply \/ CycleRescan

SpecCycle == InitCycle /\ [][NextCycle]_vars

Rescanned == out.op = "lint_al_repository"

\* the findings of the scan before the proposal
PreFindings == lintFile(ActiveFile, CycleText, inp.rules).findings

\* the findings handed to proposeFixes for which it proposes an edit
Targeted ==
  SelectSeq(FilterByFocus(PreFindings, inp.focusRules),
            LAMBDA f : EditsOfFinding(SplitLines(CycleText), f) # <<>>)

SameFinding(f, g) == f.rule = g.rule /\ f.message = g.message

CountSame(fs, f) == Len(SelectSeq(fs, LAMBDA g : SameFinding(f, g)))

\* C3: after scan, proposeFixes, applyEdits of the proposal and a second scan,
\* no finding an edit was proposed for is left (of the findings with its rule and
\* message, at most those stay that no edit was proposed for), and every finding
\* of a rule no edit was proposed for was there before the apply.
C3_RoundTripEliminatesTargetedFindings ==
  Rescanned =>
    /\ out.kind = "json"
    /\ \A k \in 1..Len(Targeted) :
         CountSame(out.findings, Targeted[k]) <= CountSame(PreFindings, Targeted[k]) - CountSame(Targeted, Targeted[k])
    /\ \A k \in 1..Len(out.findings) :
         (\A j \in 1..Len(Targeted) : Targeted[j].rule # out.findings[k].rule)
           => CountSame(PreFindings, out.findings[k]) > 0

\* the indices of the lines of the file that are the given line
IndicesOf(line) == {k \in 1..Len(inp.lines) : inp.lines[k] = line}

\* the only finding handed to proposeFixes is unusedVariable, and the variable
\* is declared on one line of its own between the first var and the first begin
UnusedDeclaredAlone ==
  /\ Len(FilterByFocus(PreFindings, inp.focusRules)) = 1
  /\ FilterByFocus(PreFindings, inp.focusRules)[1].rule = "unusedVariable"
  /\ Cardinality(IndicesOf(DeclLine)) = 1
  /\ IndicesOf(VarLine) # {} /\ IndicesOf(BeginLine) # {}
  /\ \A i \in IndicesOf(DeclLine) : Min(IndicesOf(VarLine)) < i /\ i < Min(IndicesOf(BeginLine))

\* a sequence without its i-th element
Without(s, i) == SubSeq(s, 1, i - 1) \o SubSeq(s, i + 1, Len(s))

\* C4: for such a finding the proposal is the one deletion (i,0)-(i+1,0) of the
\* declaration line; after applyEdits the file is the original without that line
\* and its terminator, and the second scan has no unusedVariable finding.
C4_UnusedVariableLineDeleted ==
  (Rescanned /\ UnusedDeclaredAlone) =>
    LET i == Min(IndicesOf(DeclLine))
    IN /\ proposal = <<[file |-> ActiveFile, edits |-> <<Edit(i - 1, 0, i, 0, <<>>)>>]>>
       /\ disk[ActiveFile] = RenderWith(Without(inp.lines, i), Without(inp.nls, i))
       /\ FindingsOfRule(out.findings, "unusedVariable") = <<>>

\* the same for files whose lines all end alike
UniformDeletion ==
  (\A j, k \in 1..Len(inp.nls) : inp.nls[j] = inp.nls[k]) => C4_UnusedVariableLineDeleted

\* ---------------------------------------------------------------------------
\* SpecRepo: a repository of two files that is scanned, proposed for and applied
\* to through the tools, the command line and the editor, while the files'
\* permissions change.
\* ---------------------------------------------------------------------------
MaxApplies == 1

RepoTexts ==
  { RenderWith(<<VarLine, DeclLine, BeginLine>>, <<<<LF>>, <<LF>>>>),
    BraceLine.text }

InitRepo ==
  /\ inp = [rules |-> AllRules]
  /\ disk \in [FileSet -> RepoTexts]
  /\ access = [f \in FileSet |-> "ok"]
  /\ doc = disk[ActiveFile]
  /\ proposal = <<>>
  /\ applies = 0
  /\ tasks = <<>>
  /\ out = Idle

\* one more confirmed apply is within the bound
Room == applies < MaxApplies

\* the permissions of a file change
Chmod ==
  \E f \in FileSet, a \in AccessKinds :
    /\ a # access[f]
    /\ access' = [access EXCEPT ![f] = a]
    /\ UNCHANGED <<disk, doc, proposal, applies, inp, tasks, out>>

RepoLint == LintTool

RepoPropose == \E fr \in FocusChoices : ProposeFixesTool(fr)

RepoApplyTool == \E c \in BOOLEAN : (c => Room) /\ ApplyEditsTool(c)

RepoCliApply == \E c \in BOOLEAN : (c => Room) /\ CliApply(c)

RepoEditorApply == \E choice \in {"Apply", "dismissed"} : (choice = "Apply" => Room) /\ ApplyFileFixes(choice)

NextRepo == Chmod \/ RepoLint \/ RepoPropose \/ RepoApplyTool \/ RepoCliApply \/ RepoEditorApply

SpecRepo == InitRepo /\ [][NextRepo]_vars

ApplyOps == {"apply_edits", "cli apply", "applyFileFixes"}

\* C1: an apply request without confirmation changes no file and no document
\* and is answered with an explanation that is not an error.
C1_UnconfirmedApplyChangesNothingAndExplains ==
  [][(out'.op \in ApplyOps /\ ~out'.confirmed)
       => (disk' = disk /\ doc' = doc /\ out'.kind \in {"text", "info"})]_vars

\* files and documents change only in a step that answers a confirmed apply request
WritesOnlyWhenConfirmed ==
  [][(disk' # disk \/ doc' # doc) => (out'.op \in ApplyOps /\ out'.confirmed)]_vars

\* the first file of a batch that cannot be read or cannot be written
Failing(files, acc) == {k \in 1..Len(files) : ~CanRead(acc, files[k].file) \/ ~CanWrite(acc, files[k].file)}

\* a confirmed apply_edits step on the held proposal whose first failure is the
\* read or write of a file
FailedBatchStep ==
  /\ out'.op = "apply_edits" /\ out'.confirmed
  /\ UNCHANGED <<access, proposal>>
  /\ Failing(proposal, access) # {}
  /\ \A j \in 1..(Min(Failing(proposal, access)) - 1) :
       ~ApplyFileEdits(disk[proposal[j].file], proposal[j].edits).raised

\* C5: when the k-th file of a batch fails, the files before it stay written
\* with their edits, the result reports them as applied, and the failure names
\* the k-th file.
C5_FailedBatchReportsAppliedFiles ==
  [][FailedBatchStep =>
       LET k == Min(Failing(proposal, access))
       IN /\ \A j \in 1..(k - 1) :
               disk'[proposal[j].file] = ApplyFileEdits(disk[proposal[j].file], proposal[j].edits).text
          /\ out'.applied = [j \in 1..(k - 1) |->
                               [file |-> proposal[j].file, applied |-> Len(proposal[j].edits)]]
          /\ out'.kind = "error" /\ out'.path = proposal[k].file]_vars

\* the part of it that is about the disk: no rollback, the failing file and the
\* files after it untouched
FailedBatchKeepsEarlierWrites ==
  [][FailedBatchStep =>
       LET k == Min(Failing(proposal, access))
       IN /\ \A j \in 1..(k - 1) :
               disk'[proposal[j].file] = ApplyFileEdits(disk[proposal[j].file], proposal[j].edits).text
          /\ \A j \in k..Len(proposal) : disk'[proposal[j].file] = disk[proposal[j].file]
          /\ out'.kind = "error" /\ out'.path = proposal[k].file]_vars

\* C6: a scan whose every file can be read returns the findings of the files
\* in enumeration order, one after the other; a scan with a file that cannot be
\* read fails and returns no finding.
C6_ScanAllOrNothing ==
  [][(out'.op = "lint_al_repository" /\ UNCHANGED <<disk, access>>)
       => IF \E k \in 1..Len(Files) : ~CanRead(access, Files[k])
          THEN out'.kind = "error" /\ out'.findings = <<>>
          ELSE /\ out'.kind = "json"
               /\ out'.findings = Concat([k \in 1..Len(Files) |->
                                            lintFile(Files[k], disk[Files[k]], inp.rules).findings])]_vars

\* a failed scan whose first file was read and has findings
C6_Witness ==
  /\ out.op = "lint_al_repository" /\ out.kind = "error" /\ out.findings = <<>>
  /\ out.path = Files[2]
  /\ CanRead(access, Files[1]) /\ ~CanRead(access, Files[2])
  /\ lintFile(Files[1], disk[Files[1]], inp.rules).findings # <<>>

\* ---------------------------------------------------------------------------
\* The documentation stub (SpecCycle).
\* ---------------------------------------------------------------------------
\* every line of the file ends with the same terminator
UniformTerminators == \A j, k \in 1..Len(inp.nls) : inp.nls[j] = inp.nls[k]

\* the xmlDoc findings of the first scan for which proposeFixes inserts a stub
StubbedFindings == SelectSeq(Targeted, LAMBDA f : f.rule = "xmlDoc")

\* C11 as claimed: after the stub that proposeFixes proposes for an xmlDoc finding
\* is inserted above the first line declaring the member, the second scan no
\* longer returns that finding, whatever stands before the keyword on that line.
C11_StubRemovesXmlDocFinding ==
  (Rescanned /\ UniformTerminators) =>
    \A k \in 1..Len(StubbedFindings) : CountSame(out.findings, StubbedFindings[k]) = 0

\* the same for files in which every declaration starts its line
LineInitialStubRemovesFinding ==
  (\A k \in 1..Len(inp.lines) : inp.lines[k].member # "none" => inp.lines[k].lineInitial)
    => C11_StubRemovesXmlDocFinding

\* ---------------------------------------------------------------------------
\* The brace check (SpecLint).
\* ---------------------------------------------------------------------------
\* some line of the file has an opening brace after a closing parenthesis of that line
BraceOnSameLine(lineList) == \E k \in 1..Len(lineList) : lineList[k] \in {BraceLine, TightBraceLine}

BraceChecked ==
  /\ Linted
  /\ inp.lines \in LineLists(BraceLines, MaxLines)
  /\ RuleEnabled(inp.rules, "braceOnNewLine")

\* C12 as claimed: with braceOnNewLine enabled, lintFile returns exactly one
\* braceOnNewLine finding when some line has an opening brace after a closing
\* parenthesis of the same line, and none when no line has, the brace standing on
\* the line after the parenthesis included.
C12_BraceFindingIffOnSameLine ==
  BraceChecked =>
    Len(FindingsOfRule(out.result.findings, "braceOnNewLine"))
      = IF BraceOnSameLine(inp.lines) THEN 1 ELSE 0

\* the part of it that holds: never more than one finding, and one whenever some
\* line has the brace after the parenthesis
BraceFindingOncePerFile ==
  BraceChecked =>
    /\ Len(FindingsOfRule(out.result.findings, "braceOnNewLine")) <= 1
    /\ BraceOnSameLine(inp.lines) => Len(FindingsOfRule(out.result.findings, "braceOnNewLine")) = 1

\* ---------------------------------------------------------------------------
\* The unused variable heuristic (SpecLint).
\* ---------------------------------------------------------------------------
VarNamesUsed == {<<"C","t","r">>, <<"N","u","m">>}

\* the lines that declare v, and the lines on which v stands as a whole word
DeclLinesOf(v) == IF v = <<"C","t","r">> THEN {DeclLine, TwoDeclLine} ELSE {TwoDeclLine}

WordLinesOf(v) == IF v = <<"C","t","r">> THEN {DeclLine, TwoDeclLine, BeginUseLine, UseLine} ELSE {TwoDeclLine}

BeginLines == {BeginLine, BeginUseLine, BeginLongerLine}

\* the number of whole-word occurrences of v in the file
WordOccurrences(lineList, v) == Cardinality({k \in 1..Len(lineList) : lineList[k] \in WordLinesOf(v)})

\* v is declared on exactly one line, between the first var and the begin that follows it
DeclaredOnceInBlock(lineList, v) ==
  LET vs == {k \in 1..Len(lineList) : lineList[k] = VarLine}
      ds == {k \in 1..Len(lineList) : lineList[k] \in DeclLinesOf(v)}
  IN /\ vs # {}
     /\ Cardinality(ds) = 1
     /\ \E b \in 1..Len(lineList) :
          /\ lineList[b] \in BeginLines
          /\ \A d \in ds : Min(vs) < d /\ d < b

UnusedFindingsFor(fs, v) ==
  SelectSeq(fs, LAMBDA f : f.rule = "unusedVariable"
                           /\ f.message = <<"V","a","r","i","a","b","l","e"," ","'">> \o v \o <<"'"," ","a","p","p","e","a","r","s"," ","u","n","u","s","e","d",".">>)

VarChecked == Linted /\ inp.lines \in LineLists(VarLines, MaxLines)

UsedVariableReached ==
  /\ VarChecked
  /\ inp.lines = <<VarLine, DeclLine, BeginUseLine>>
  /\ out.result.findings = <<>>

\* ---------------------------------------------------------------------------
\* SpecScan: one scan of a repository of two files with every rule switched on.
\* ---------------------------------------------------------------------------
OpenTriggerLine == MemberLine(<<"t","r","i","g","g","e","r"," ","O","n","O","p","e","n","(",")"," ","{">>, "trigger", <<"O","n","O","p","e","n">>, TRUE)
CtrNumBlockLine == Plain(<<"v","a","r"," ","C","t","r",":"," ","I","n","t","e","g","e","r",";"," ","N","u","m",":"," ","I","n","t","e","g","e","r",";"," ","b","e","g","i","n">>)
NumCtrBlockLine == Plain(<<"v","a","r"," ","N","u","m",":"," ","I","n","t","e","g","e","r",";"," ","C","t","r",":"," ","I","n","t","e","g","e","r",";"," ","b","e","g","i","n">>)

ScanLines ==
  { HeaderLine(<<"t","a","b","l","e"," ","2"," ","\"","C","u","s","t","\"">>, <<"t","a","b","l","e">>, <<"C","u","s","t">>),
    MemberLine(<<"t","r","i","g","g","e","r"," ","O","n","R","u","n","(",")">>, "trigger", <<"O","n","R","u","n">>, TRUE),
    OpenTriggerLine,
    MemberLine(<<"p","r","o","c","e","d","u","r","e"," ","F","o","o","(",")">>, "procedure", <<"F","o","o">>, TRUE),
    MemberLine(<<"x"," ","p","r","o","c","e","d","u","r","e"," ","B","a","r","(",")">>, "procedure", <<"B","a","r">>, FALSE),
    CtrNumBlockLine, NumCtrBlockLine }

ScanInputs ==
  {[files |-> <<a, b>>, rules |-> AllRules] :
     a \in LineLists(ScanLines, MaxLines), b \in LineLists(ScanLines, 1)}

InitScan ==
  /\ inp \in ScanInputs
  /\ disk = [f \in FileSet |-> Render(inp.files[CHOOSE k \in 1..Len(Files) : Files[k] = f], <<LF>>)]
  /\ access = [f \in FileSet |-> "ok"]
  /\ doc = <<>>
  /\ proposal = <<>>
  /\ applies = 0
  /\ tasks = <<>>
  /\ out = Idle

ScanCall == out = Idle /\ LintTool

\* propose_fixes without focus rules on the same repository
ScanPropose == out = Idle /\ ProposeFixesTool(<<>>)

NextScan == ScanCall \/ ScanPropose

SpecScan == InitScan /\ [][NextScan]_vars

\* what a finding is about: its file, its rule (for xmlDoc the kind of member) and
\* the member or variable its message names
FindingKey(file, kind, name) == [file |-> file, kind |-> kind, name |-> name]

KeyOf(f) ==
  CASE f.rule = "xmlDoc" /\ HasLitAt(f.message, 1, <<"M","i","s","s","i","n","g"," ","X","M","L"," ","d","o","c"," ","f","o","r"," ","t","r","i","g","g","e","r"," ">>) ->
         FindingKey(f.file, "trigger", SubSeq(f.message, 29, Len(f.message) - 1))
    [] f.rule = "xmlDoc" /\ HasLitAt(f.message, 1, <<"M","i","s","s","i","n","g"," ","X","M","L"," ","d","o","c"," ","f","o","r"," ","p","r","o","c","e","d","u","r","e"," ">>) ->
         FindingKey(f.file, "procedure", SubSeq(f.message, 31, Len(f.message) - 1))
    [] f.rule = "unusedVariable" /\ HasLitAt(f.message, 1, <<"V","a","r","i","a","b","l","e"," ","'">>) ->
         FindingKey(f.file, "unusedVariable", SubSeq(f.message, 11, Len(f.message) - 17))
    [] OTHER -> FindingKey(f.file, f.rule, <<>>)

KeysOf(fs) == [k \in 1..Len(fs) |-> KeyOf(fs[k])]

\* the members of one kind a file declares, in source order
MembersInSource(file, lineList, kind) ==
  LET ms == SelectSeq(lineList, LAMBDA l : l.member = kind)
  IN [k \in 1..Len(ms) |-> FindingKey(file, kind, ms[k].memberName)]

\* the variables of the first var block of a file, in declaration order
VariablesInSource(file, lineList) ==
  LET bs == {k \in 1..Len(lineList) : lineList[k] \in {CtrNumBlockLine, NumCtrBlockLine}}
      names == IF bs = {} THEN <<>>
               ELSE IF lineList[Min(bs)] = CtrNumBlockLine THEN <<<<"C","t","r">>, <<"N","u","m">>>>
               ELSE <<<<"N","u","m">>, <<"C","t","r">>>>
  IN [k \in 1..Len(names) |-> FindingKey(file, "unusedVariable", names[k])]

\* everything a scan of the file could report, in the fixed rule order
RuleOrder(file, lineList) ==
  <<FindingKey(file, "objectPrefix", <<>>)>>
  \o MembersInSource(file, lineList, "trigger")
  \o MembersInSource(file, lineList, "procedure")
  \o <<FindingKey(file, "braceOnNewLine", <<>>)>>
  \o VariablesInSource(file, lineList)

Scanned == out.op = "lint_al_repository"

\* C14: the findings of a scan are, file after file in enumeration order, the
\* objectPrefix finding, the xmlDoc findings for triggers in source order, those
\* for procedures in source order, the braceOnNewLine finding and the
\* unusedVariable findings in declaration order: the reported findings are the
\* reportable ones in that order.
C14_FindingsInRuleOrder ==
  Scanned =>
    /\ out.kind = "json"
    /\ KeysOf(out.findings)
         = SelectSeq(RuleOrder(Files[1], inp.files[1]) \o RuleOrder(Files[2], inp.files[2]),
                     LAMBDA key : \E k \in 1..Len(out.findings) : KeyOf(out.findings[k]) = key)

\* C14 witness: a scan has returned, for the first file, a procedure finding for a
\* procedure that stands before a trigger in the source, after the trigger's finding
\* and before the brace finding, and findings for the second file after them.
C14_Witness ==
  /\ Scanned
  /\ inp.files[1][1].member = "procedure"
  /\ Len(inp.files[1]) >= 2 /\ inp.files[1][2] = OpenTriggerLine
  /\ Len(out.findings) >= 5
  /\ KeyOf(out.findings[1]).kind = "trigger"
  /\ KeyOf(out.findings[2]).kind = "procedure"
  /\ KeyOf(out.findings[3]).kind = "braceOnNewLine"
  /\ out.findings[Len(out.findings)].file = Files[2]

\* ---------------------------------------------------------------------------
\* Severities (SpecLint).
\* ---------------------------------------------------------------------------
\* C15 as claimed: whatever the content and the rule configuration, severity
\* overrides included, every finding of lintFile has a severity among blocker,
\* major, minor and info, and renderReview buckets the findings without failing.
C15_SeverityAlwaysInRange ==
  Linted =>
    /\ \A k \in 1..Len(out.result.findings) :
         /\ out.result.findings[k].severity.t = "string"
         /\ out.result.findings[k].severity.str \in SeverityNames
    /\ ~renderReviewRaises(out.result.findings)

\* the severity overrides of the configuration
Overrides(rules) ==
  {s \in {rules.objectPrefix, rules.documentation, rules.formatting} : s.present /\ Truthy(s.severity)}

\* the same for configurations whose overrides are among the four severities
ValidOverridesInRange ==
  (\A s \in Overrides(inp.rules) : s.severity.t = "string" /\ s.severity.str \in SeverityNames)
    => C15_SeverityAlwaysInRange

\* ---------------------------------------------------------------------------
\* The shape of a proposal (SpecScan).
\* ---------------------------------------------------------------------------
Proposed == out.op = "propose_fixes"

\* the findings handed to proposeFixes: those of the scan that precedes it
ScanFindings == lintRepo(disk, access, RepoFiles(disk), inp.rules).findings

FindingsOfFile(fs, file) == SelectSeq(fs, LAMBDA f : f.file = file)

\* some finding of the file has an edit
YieldsEdit(fs, file) ==
  \E k \in 1..Len(fs) : fs[k].file = file /\ EditsOfFinding(SplitLines(disk[file]), fs[k]) # <<>>

\* C16: in a proposal every listed file has at least one edit and at most one
\* edit per finding it has in the input, no file is listed twice, and a file
\* whose findings yield no edit is not listed.
C16_ProposalShape ==
  Proposed =>
    /\ out.kind = "json"
    /\ \A k \in 1..Len(out.files) :
         /\ Len(out.files[k].edits) >= 1
         /\ Len(out.files[k].edits) <= Len(FindingsOfFile(ScanFindings, out.files[k].file))
    /\ \A j, k \in 1..Len(out.files) : j # k => out.files[j].file # out.files[k].file
    /\ \A f \in FileSet :
         ~YieldsEdit(ScanFindings, f) => \A k \in 1..Len(out.files) : out.files[k].file # f

\* C16 witness: both files have findings, those of the second yield no edit and
\* the proposal lists the first file alone, with fewer edits than it has findings.
C16_Witness ==
  /\ Proposed
  /\ FindingsOfFile(ScanFindings, Files[2]) # <<>>
  /\ Len(out.files) = 1 /\ out.files[1].file = Files[1]
  /\ Len(out.files[1].edits) >= 2
  /\ Len(out.files[1].edits) < Len(FindingsOfFile(ScanFindings, Files[1]))

\* ---------------------------------------------------------------------------
\* Offsets (SpecEdits).  Every file of SpecEdits has one terminator throughout.
\* ---------------------------------------------------------------------------
Applied == out.op = "applyEdits"

\* C17: applyEdits works with one terminator length for the file, 2 when the
\* text has a CRLF and 1 otherwise, and for a file whose terminators are all LF or
\* all CRLF the offset indexFromPos computes for a position inside the file is the
\* number of characters of the text before that position.
C17_OffsetsAreTrueOffsets ==
  Applied =>
    /\ out.newlineLen = IF Len(inp.lines) > 1 /\ inp.nl = <<CR, LF>> THEN 2 ELSE 1
    /\ Len(out.spans) = Len(inp.edits)
    /\ \A k \in 1..Len(inp.edits) :
         /\ out.spans[k].start = TrueOffset(inp.lines, inp.nl, inp.edits[k].range.start)
         /\ out.spans[k].end = TrueOffset(inp.lines, inp.nl, inp.edits[k].range.end)

\* C17 witness: in a CRLF file of three lines with an empty one, an edit that
\* starts on the last line has been given its offset, two terminators into the text.
C17_Witness ==
  /\ Applied
  /\ inp.nl = <<CR, LF>> /\ Len(inp.lines) = 3
  /\ out.newlineLen = 2
  /\ \E k \in 1..Len(inp.edits) :
       /\ inp.edits[k].range.start = [line |-> 2, column |-> 1]
       /\ out.spans[k].start = 6

\* ---------------------------------------------------------------------------
\* decodeBufferToString.  A buffer is a sequence of bytes; the outcome is the
\* decoder the function hands the bytes to and the bytes it hands over (the
\* decoders themselves, Buffer.toString and TextDecoder, are library code).
\* ---------------------------------------------------------------------------
Decoding(encoding, bytes) == [encoding |-> encoding, bytes |-> bytes]

\* the count of zero bytes taken over the whole buffer
nulCountWhole(buf) == Cardinality({i \in 1..Len(buf) : buf[i] = 0})

\* the loop over the first Math.min(buf.length, 64) bytes
nulCount(buf) == Cardinality({i \in 1..Min({Len(buf), 64}) : buf[i] = 0})

decodeBufferToString(buf) ==
  IF Len(buf) >= 3 /\ buf[1] = 239 /\ buf[2] = 187 /\ buf[3] = 191
  THEN Decoding("utf8", SubSeq(buf, 4, Len(buf)))
  ELSE IF Len(buf) >= 2 /\ buf[1] = 255 /\ buf[2] = 254 THEN Decoding("utf-16le", buf)
  ELSE IF Len(buf) >= 2 /\ buf[1] = 254 /\ buf[2] = 255 THEN Decoding("utf-16be", buf)
  ELSE IF nulCount(buf) > 10 THEN Decoding("utf-16le", buf)
  ELSE Decoding("utf8", buf)

\* SpecDecode: one call on a buffer made of a head, a run of zero bytes, a run
\* of letters and a second run of zero bytes
Utf8Bom == <<239, 187, 191>>
Utf16LeBom == <<255, 254>>
Utf16BeBom == <<254, 255>>

Heads == {<<>>, Utf8Bom, Utf16LeBom, Utf16BeBom, <<239, 187>>, <<255>>, <<239, 187, 0>>, <<254, 254, 255>>}

Repeat(b, n) == [k \in 1..n |-> b]

BufferOf(i) == i.head \o Repeat(0, i.early) \o Repeat(65, i.letters) \o Repeat(0, i.late)

DecodeInputs == [head : Heads, early : {0, 9, 10, 11}, letters : {0, 53, 54, 64}, late : {0, 1, 12}]

InitDecode ==
  /\ inp \in DecodeInputs
  /\ out = Idle
  /\ disk = <<>>
  /\ access = <<>>
  /\ doc = <<>>
  /\ proposal = <<>>
  /\ applies = 0
  /\ tasks = <<>>

DecodeCall ==
  /\ out = Idle
  /\ out' = [op |-> "decodeBufferToString", result |-> decodeBufferToString(BufferOf(inp))]
  /\ UNCHANGED <<disk, access, doc, proposal, applies, inp, tasks>>

NextDecode == DecodeCall

SpecDecode == InitDecode /\ [][NextDecode]_vars

DecodeDone == out.op = "decodeBufferToString"

\* the zero bytes of the buffer that stand among its first 64 bytes
EarlyZeros(i) ==
  LET room == 64 - (Len(i.head) + i.early + i.letters)
      tail == IF room <= 0 THEN 0 ELSE IF room >= i.late THEN i.late ELSE room
  IN Cardinality({k \in 1..Len(i.head) : i.head[k] = 0}) + i.early + tail

\* C18: the encoding is chosen in strict priority: a UTF-8 mark means UTF-8
\* without the mark; else FF FE means UTF-16LE; else FE FF means UTF-16BE; else
\* more than 10 zero bytes among the first 64 bytes mean UTF-16LE; else UTF-8.
\* Ten zero bytes, or zero bytes beyond the first 64 bytes, leave it at UTF-8.
C18_EncodingPriority ==
  DecodeDone =>
    out.result =
      IF IsPrefixOf(Utf8Bom, inp.head) THEN Decoding("utf8", SubSeq(BufferOf(inp), 4, Len(BufferOf(inp))))
      ELSE IF IsPrefixOf(Utf16LeBom, inp.head) THEN Decoding("utf-16le", BufferOf(inp))
      ELSE IF IsPrefixOf(Utf16BeBom, inp.head) THEN Decoding("utf-16be", BufferOf(inp))
      ELSE IF EarlyZeros(inp) > 10 THEN Decoding("utf-16le", BufferOf(inp))
      ELSE Decoding("utf8", BufferOf(inp))

\* C18 witness: a buffer without a mark, with exactly ten zero bytes among its
\* first 64 bytes and twelve more beyond them, has been decoded as UTF-8.
C18_Witness ==
  /\ DecodeDone
  /\ inp.head = <<>> /\ inp.early = 9 /\ inp.letters = 54 /\ inp.late = 12
  /\ EarlyZeros(inp) = 10
  /\ out.result.encoding = "utf8"

\* ---------------------------------------------------------------------------
\* SpecRace: apply_edits requests in flight at the same time, and another
\* writer.  applyEdits gives up control at `await fs.readFile` and at
\* `await fs.writeFile`, so the read and the write of a file are two steps and
\* the steps of other requests and of other programs fall between them.
\* ---------------------------------------------------------------------------
MaxTasks == 2

TaskIds == 1..MaxTasks

NoTask == [pc |-> "idle", files |-> <<>>, k |-> 0, text |-> <<>>, replaced |-> <<>>, results |-> <<>>]

RaceText == Join(<<BraceLine.text, VarLine.text, DeclLine.text, BeginLine.text>>, <<LF>>)

\* what the other writer puts in front of a file
Note == <<"/","/"," ","n","\n">>

InitRace ==
  /\ inp = [rules |-> AllRules]
  /\ disk = [f \in FileSet |-> IF f = ActiveFile THEN RaceText ELSE BraceLine.text]
  /\ access = [f \in FileSet |-> "ok"]
  /\ doc = <<>>
  /\ proposal = <<>>
  /\ applies = 0
  /\ tasks = [t \in TaskIds |-> NoTask]
  /\ out = Idle

\* the caller asks for a proposal once, before it applies anything
RacePropose ==
  /\ proposal = <<>>
  /\ \A t \in TaskIds : tasks[t].pc = "idle"
  /\ ProposeFixesTool(<<>>)

\* another program rewrites a file
ExternalWrite ==
  \E f \in FileSet :
    /\ ~IsPrefixOf(Note, disk[f])
    /\ disk' = [disk EXCEPT ![f] = Note \o disk[f]]
    /\ UNCHANGED <<access, doc, proposal, applies, tasks, inp, out>>

\* args.files of a request: the proposal, or one file of it with all or one of its edits
RaceBatches(files) ==
  ({files} \ {<<>>})
  \cup {<<files[j]>> : j \in 1..Len(files)}
  \cup UNION {{<<[file |-> files[j].file, edits |-> <<files[j].edits[k]>>]>> : k \in 1..Len(files[j].edits)} :
              j \in 1..Len(files)}

\* apply_edits {confirm: true, files} arrives: applyEdits starts on its first file
RaceStart(t) ==
  \E files \in RaceBatches(proposal) :
    /\ tasks[t].pc = "idle"
    /\ tasks' = [tasks EXCEPT ![t] = [NoTask EXCEPT !.pc = "read", !.files = files, !.k = 1]]
    /\ applies' = applies + 1
    /\ UNCHANGED <<disk, access, doc, proposal, inp, out>>

\* the request ends with an exception
RaceFail(t, path) ==
  /\ tasks' = [tasks EXCEPT ![t].pc = "failed"]
  /\ out' = Response("apply_edits", TRUE, "error", path, <<>>, <<>>, <<>>)
  /\ UNCHANGED <<disk, access, doc, proposal, applies, inp>>

\* await fs.readFile(abs, 'utf-8')
RaceRead(t) ==
  LET Read(f) ==
        IF ~CanRead(access, f.file) THEN RaceFail(t, f.file)
        ELSE /\ tasks' = [tasks EXCEPT ![t].pc = "write", ![t].text = disk[f.file]]
             /\ UNCHANGED <<disk, access, doc, proposal, applies, inp, out>>
  IN /\ tasks[t].pc = "read"
     /\ Read(tasks[t].files[tasks[t].k])

\* the write that would refuse a file that changed since it was read
RaceWriteIfFresh(t) ==
  LET Done(f, results, last) ==
        /\ tasks' = [tasks EXCEPT ![t].pc = IF last THEN "done" ELSE "read",
                                  ![t].k = @ + 1,
                                  ![t].replaced = disk[f.file],
                                  ![t].results = results]
        /\ out' = IF last THEN Response("apply_edits", TRUE, "json", "", <<>>, <<>>, results) ELSE out
      Written(f, r) ==
        IF r.raised THEN RaceFail(t, "")
        ELSE IF ~CanWrite(access, f.file) \/ disk[f.file] # tasks[t].text THEN RaceFail(t, f.file)
        ELSE /\ disk' = [disk EXCEPT ![f.file] = r.text]
             /\ Done(f, Append(tasks[t].results, [file |-> f.file, applied |-> Len(f.edits)]),
                     tasks[t].k = Len(tasks[t].files))
             /\ UNCHANGED <<access, doc, proposal, applies, inp>>
      Write(f) == Written(f, ApplyFileEdits(tasks[t].text, f.edits))
  IN /\ tasks[t].pc = "write"
     /\ Write(tasks[t].files[tasks[t].k])

\* the new text computed from what was read, await fs.writeFile(abs, newText, 'utf-8'),
\* results.push; after the last file the request is answered
RaceWrite(t) ==
  LET Done(f, results, last) ==
        /\ tasks' = [tasks EXCEPT ![t].pc = IF last THEN "done" ELSE "read",
                                  ![t].k = @ + 1,
                                  ![t].replaced = disk[f.file],
                                  ![t].results = results]
        /\ out' = IF last THEN Response("apply_edits", TRUE, "json", "", <<>>, <<>>, results) ELSE out
      Written(f, r) ==
        IF r.raised THEN RaceFail(t, "")
        ELSE IF ~CanWrite(access, f.file) THEN RaceFail(t, f.file)
        ELSE /\ disk' = [disk EXCEPT ![f.file] = r.text]
             /\ Done(f, Append(tasks[t].results, [file |-> f.file, applied |-> Len(f.edits)]),
                     tasks[t].k = Len(tasks[t].files))
             /\ UNCHANGED <<access, doc, proposal, applies, inp>>
      Write(f) == Written(f, ApplyFileEdits(tasks[t].text, f.edits))
  IN /\ tasks[t].pc = "write"
     /\ Write(tasks[t].files[tasks[t].k])

RaceStarts == \E t \in TaskIds : RaceStart(t)

RaceReads == \E t \in TaskIds : RaceRead(t)

RaceWrites == \E t \in TaskIds : RaceWrite(t)

NextRace == RacePropose \/ ExternalWrite \/ RaceStarts \/ RaceReads \/ RaceWrites

SpecRace == InitRace /\ [][NextRace]_vars

\* the file a request is working on
FileInHand(t) == tasks[t].files[tasks[t].k]

\* C19: applyEdits takes no lock and detects no staleness: the step that ends
\* the write of a file fails only when the edits do not fit the text that was
\* read, and otherwise it replaces the file by the text read with the edits
\* applied, whatever the file holds by then; it changes no other file and no
\* other request.
C19_WritesWithoutStalenessCheck ==
  [][\A t \in TaskIds :
       (tasks[t].pc = "write" /\ tasks'[t] # tasks[t]) =>
         /\ tasks'[t].pc = "failed" <=> ApplyFileEdits(tasks[t].text, FileInHand(t).edits).raised
         /\ tasks'[t].pc # "failed" =>
              disk' = [disk EXCEPT ![FileInHand(t).file] =
                         ApplyFileEdits(tasks[t].text, FileInHand(t).edits).text]
         /\ \A u \in TaskIds \ {t} : tasks'[u] = tasks[u]]_vars

\* C19 witness: the other writer's note was put in front of a file between a
\* request's read and its write; the request is done and the file is without
\* the note.
C19_Witness ==
  \E t \in TaskIds :
    /\ tasks[t].pc = "done" /\ Len(tasks[t].files) = 1
    /\ ~IsPrefixOf(Note, tasks[t].text)
    /\ IsPrefixOf(Note, tasks[t].replaced)
    /\ ~StrIncludes(disk[tasks[t].files[1].file], Note)

\* the note written between the proposal and the apply is overwritten by the
\* edit computed for the line that stood there
StaleProposalLosesNote ==
  \E t \in TaskIds :
    /\ tasks[t].pc = "done" /\ Len(tasks[t].files) = 1
    /\ IsPrefixOf(Note, tasks[t].text)
    /\ tasks[t].replaced = tasks[t].text
    /\ ~StrIncludes(disk[tasks[t].files[1].file], Note)

\* two requests on one file, each with one of its edits: the second write
\* replaces the first one's text and the first edit is gone
InterleavedApplyLosesEdit ==
  \E t, u \in TaskIds :
    /\ t # u /\ tasks[t].pc = "done" /\ tasks[u].pc = "done"
    /\ tasks[t].files # tasks[u].files
    /\ Len(tasks[t].files) = 1 /\ Len(tasks[u].files) = 1
    /\ tasks[t].files[1].file = tasks[u].files[1].file
    /\ tasks[t].text = tasks[u].text
    /\ tasks[u].replaced = ApplyFileEdits(tasks[t].text, tasks[t].files[1].edits).text
    /\ disk[tasks[u].files[1].file] = ApplyFileEdits(tasks[u].text, tasks[u].files[1].edits).text
    /\ disk[tasks[u].files[1].file] # tasks[u].replaced

\* requests on different files: each file ends with its own request's text
DifferentFilesIndependent ==
  \A t, u \in TaskIds :
    (/\ tasks[t].pc = "done" /\ tasks[u].pc = "done"
     /\ Len(tasks[t].files) = 1 /\ Len(tasks[u].files) = 1
     /\ tasks[t].files[1].file # tasks[u].files[1].file
     /\ \A f \in FileSet : ~StrIncludes(disk[f], Note) /\ ~StrIncludes(tasks[t].text, Note)
                           /\ ~StrIncludes(tasks[u].text, Note)
     /\ tasks[t].replaced = tasks[t].text)
      => disk[tasks[t].files[1].file] = ApplyFileEdits(tasks[t].text, tasks[t].files[1].edits).text

\* ---------------------------------------------------------------------------
\* Line terminators after an apply (SpecCycle).
\* ---------------------------------------------------------------------------
\* every line feed of the text closes a CR LF pair
AllCRLF(text) == \A i \in 1..Len(text) : text[i] = LF => (i > 1 /\ text[i - 1] = CR)

\* no line feed of the text closes a CR LF pair
AllLF(text) == \A i \in 1..Len(text) : text[i] = LF => ~(i > 1 /\ text[i - 1] = CR)

TerminatorsUniform(text) == AllCRLF(text) \/ AllLF(text)

\* the proposal has been applied
CycleApplied == out.op = "apply_edits" /\ out.kind = "json"

\* C20 as claimed: a file whose terminators are all CRLF, or all LF, before the
\* proposal of proposeFixes is applied has uniform terminators after applyEdits.
C20_ApplyKeepsTerminatorsUniform ==
  (CycleApplied /\ TerminatorsUniform(CycleText)) => TerminatorsUniform(disk[ActiveFile])

\* a file whose terminators are all LF keeps them all LF
LFFileStaysLF ==
  (CycleApplied /\ AllLF(CycleText)) => AllLF(disk[ActiveFile])

\* a proposal that only deletes keeps a file's terminators uniform
DeletionsKeepTerminatorsUniform ==
  (/\ CycleApplied /\ TerminatorsUniform(CycleText)
   /\ \A j \in 1..Len(proposal) : \A k \in 1..Len(proposal[j].edits) : proposal[j].edits[k].newText = <<>>)
    => TerminatorsUniform(disk[ActiveFile])

\* a CRLF file of several lines to which a stub or a brace replacement was applied
CRLFFileEdited ==
  /\ CycleApplied /\ AllCRLF(CycleText) /\ Len(inp.lines) > 1
  /\ \E j \in 1..Len(proposal) : \E k \in 1..Len(proposal[j].edits) : proposal[j].edits[k].newText # <<>>

\* ---------------------------------------------------------------------------
\* SpecLoop: the caller repeats propose_fixes (which scans) and apply_edits on
\* one file that nothing else modifies, MaxCycles times.
\* ---------------------------------------------------------------------------
MaxCycles == 3

LoopInputs ==
  {[lines |-> l, nl |-> nl, rules |-> DocOnlyRules] :
     l \in LineLists(DocLines, MaxLines), nl \in Terminators}
  \cup {[lines |-> l, nl |-> <<LF>>, rules |-> AllRules] : l \in LineLists(CycleLines, MaxLines)}

InitLoop ==
  /\ inp \in LoopInputs
  /\ disk = [f \in {ActiveFile} |-> Render(inp.lines, inp.nl)]
  /\ access = [f \in {ActiveFile} |-> "ok"]
  /\ doc = <<>>
  /\ proposal = <<>>
  /\ applies = 0
  /\ tasks = <<>>
  /\ out = Idle

LoopPropose == out.op \in {"none", "apply_edits"} /\ ProposeFixesTool(<<>>)

LoopApply == out.op = "propose_fixes" /\ applies < MaxCycles /\ ApplyEditsTool(TRUE)

NextLoop == LoopPropose \/ LoopApply

SpecLoop == InitLoop /\ [][NextLoop]_vars

\* proposeFixes has returned a proposal without edits
Settled == out.op = "propose_fixes" /\ out.kind = "json" /\ proposal = <<>>

\* C21 as claimed, for the files of the model, which have at most MaxLines lines
\* to fix: repeating scan, proposeFixes, applyEdits on an otherwise unmodified
\* file, the proposal returned after MaxCycles cycles has no edits.
C21_CycleTerminates ==
  (out.op = "propose_fixes" /\ applies = MaxCycles) => Settled

\* the texts of the declaration lines that have text before the keyword
TextBeforeKeyword == {l.text : l \in {d \in DocLines : d.member # "none" /\ ~d.lineInitial}}

\* documentation is required, every terminator of the text is LF and the text
\* has a declaration line with text before the keyword
StuckText(text) ==
  /\ Truthy(Opt(inp.rules.documentation, "requireXmlDoc"))
  /\ AllLF(text)
  /\ \E k \in 1..Len(SplitLines(text)) : SplitLines(text)[k] \in TextBeforeKeyword

Stuck == StuckText(disk[ActiveFile])

\* every proposal for such a file has an edit
StuckFileAlwaysHasEdit ==
  (out.op = "propose_fixes" /\ Stuck) => (out.kind = "json" /\ proposal # <<>>)

\* every apply leaves such a file such a file, and longer
StuckFileStaysStuck ==
  [][(Stuck /\ out.op = "propose_fixes") =>
       (StuckText(disk'[ActiveFile]) /\ Len(disk'[ActiveFile]) > Len(disk[ActiveFile]))]_vars

\* every other file whose terminators are LF has settled after MaxCycles
\* cycles (the brace edit is proposed for one line per cycle)
OtherFilesSettle ==
  (out.op = "propose_fixes" /\ applies = MaxCycles /\ inp.nl = <<LF>> /\ ~Stuck) => Settled

\* applying a proposal without edits leaves the file as it is
SettledFileUnchanged ==
  [][(Settled /\ out'.op = "apply_edits") => disk' = disk]_vars

\* the file was changed by MaxCycles applies and the next proposal has edits again
StillProposingAfterMaxCycles ==
  /\ out.op = "propose_fixes" /\ applies = MaxCycles /\ proposal # <<>>

====
